---------------------------- MODULE Spec2Model ----------------------------
(***************************************************************************)
(* A model of python-dispatch (pydispatch): one Dispatcher instance with   *)
(* its event and property channels (dispatch.py), the weak listener        *)
(* containers and the emission lock (utils.py) and the property            *)
(* descriptors (properties.py).                                            *)
(*                                                                         *)
(* Every public call is one action.  The variables `op`, `calls`,          *)
(* `dispatched` and `scheduled` record what the last call was and what it  *)
(* did (its result or exception, the listener invocations it made, the     *)
(* payloads it dispatched, the coroutines it handed to event loops);       *)
(* `depth`, `nHeld`, `lastHeld` and `diedBound` are history variables.     *)
(* None of them is read by the program.                                    *)
(***************************************************************************)
EXTENDS Integers, Sequences, FiniteSets, TLC

VARIABLES
    events,         \* the keys of Dispatcher.__events: the registered event names
    listeners,      \* Event.listeners: the keys of each channel's WeakMethodContainer
    aio_listeners,  \* Event.aio_listeners: the keys of each channel's AioWeakMethodContainer
    event_loop_map, \* AioWeakMethodContainer.event_loop_map, per channel: <<key, loop>> pairs
    alive,          \* which callback owners (objects, functions) still exist
    held,           \* EmissionHoldLock.held, per channel
    last_event,     \* EmissionHoldLock.last_event, per channel
    aio_locks,      \* EmissionHoldLock.aio_locks, per channel and event loop
    storage,        \* Property.__storage[id(obj)], per property
    range_storage,  \* NumericProperty.__range_storage[id(obj)], per property
    heap,           \* the list and dict objects behind the container properties
    receiver,       \* observation: the container the last container call was made on
    copy_on_change, \* ListProperty.copy_on_change / DictProperty.copy_on_change, per property
    objs,           \* further instances of the class: state, storage entries, weak references
    cache,          \* decorators._CACHED_CALLBACKS.cache: the callbacks cached per event name
    aio_waiters,    \* Event.aio_waiters of on_test: lock, waiters, and the threads using them
    kept,           \* the container the caller holds in a variable of its own, or 0
    loop_queue,     \* per event loop: the coroutine calls submitted to it and not yet run
    emitting,       \* per event loop: the emit that has found the lock held and not yet
                    \* written last_event
    classes,        \* the Dispatcher subclasses defined so far, with _EVENTS_ and _PROPERTIES_
    instance,       \* an instance of one of them: its class and the keys of its two dicts
    depth,          \* history: with-scopes currently open, per channel and context
    nHeld,          \* history: emits issued since `held` last became true, per channel
    lastHeld,       \* history: the payload of the latest of those emits
    diedBound,      \* history: the owners collected while a channel had an entry for them
    op,             \* observation: the last call (kind, inputs, result)
    calls,          \* observation: the listener invocations the last call made
    dispatched,     \* observation: the payloads the last call dispatched unlocked
    scheduled       \* observation: the coroutine calls the last call handed to event loops

chanVars == <<events, listeners, aio_listeners, event_loop_map, alive>>
lockVars == <<held, last_event, aio_locks>>
propVars == <<storage, range_storage>>
classVars == <<classes, instance>>
contVars == <<heap, receiver, copy_on_change>>
instVars == <<objs>>
globVars == <<cache>>
waitVars == <<aio_waiters>>
lateVars == <<kept, emitting, loop_queue>>
moreVars == <<instVars, globVars, waitVars, lateVars>>
histVars == <<depth, nHeld, lastHeld, diedBound>>
obsVars  == <<op, calls, dispatched, scheduled>>
vars     == <<events, listeners, aio_listeners, event_loop_map, alive, held, last_event,
              aio_locks, storage, range_storage, heap, receiver, copy_on_change, objs, cache,
              aio_waiters, kept, emitting, loop_queue,
              classes, instance, depth, nHeld,
              lastHeld, diedBound, op, calls, dispatched, scheduled>>

---------------------------------------------------------------------------
(* Bounds of the model *)

MaxInt      == 3   \* integer values are 0 .. MaxInt
MaxEmitArg  == 1   \* emit payloads are the integers 0 .. MaxEmitArg
MaxHeldEmits == 2  \* emits accepted while a channel's lock is held
MaxScopes   == 2   \* with-scopes open at once on one channel
XMin        == 1   \* min= of the IntProperty `x`
XMax        == 2   \* max= of the IntProperty `x`
MaxObjs     == 4   \* list and dict objects existing at once
MaxLen      == 2   \* elements of the longest list
MaxWaiters  == 2   \* AioEventWaiter objects created in one run
MaxQueue    == 2   \* coroutine calls waiting on the event loops

---------------------------------------------------------------------------
(* Values *)

PyNone     == [t |-> "NoneType", n |-> 0]
IntV(k)    == [t |-> "int", n |-> k]
FloatV(k)  == [t |-> "float", n |-> k]
BoolV(k)   == [t |-> "bool", n |-> k]
StrV(k)    == [t |-> "str", n |-> k]
NoVal      == [t |-> "absent", n |-> 0]

Values ==
    {PyNone} \cup {IntV(k) : k \in 0..MaxInt} \cup {FloatV(1), BoolV(1), StrV(0), StrV(1)}

IsNumber(v) == v.t \in {"int", "float", "bool"}

\* Python's ==: 1 == 1.0 == True; None and strings equal only themselves
PyEq(a, b) == IF IsNumber(a) /\ IsNumber(b) THEN a.n = b.n ELSE a = b

EmitArgs == {IntV(k) : k \in 0..MaxEmitArg}

\* what a listener is called with: emit(name, a) or
\* emit(name, obj, a, old=old, property=prop)
EventPayload(a)        == [a |-> a, old |-> NoVal, prop |-> ""]
PropPayload(p, a, old) == [a |-> a, old |-> old, prop |-> p]
NoEvent                == [a |-> NoVal, old |-> NoVal, prop |-> "<None>"]

---------------------------------------------------------------------------
(* The dispatcher's class: one event, three properties *)

EventNames == {"on_test"}
PropNames  == {"test_prop", "bar", "x"}
Names      == EventNames \cup PropNames
UnknownName == "on_missing"

\* a name the class does not declare, for register_event; the channels the
\* instance has or can get
NewEventNames == {"on_new"}

\* test_list = ListProperty(); test_dict = DictProperty()
ContainerProps == {"test_list", "test_dict"}

Channels      == Names \cup NewEventNames \cup ContainerProps

\* test_prop = Property(); bar = StringProperty('', allownone=False);
\* x = IntProperty(XMin, min=XMin, max=XMax)
PropDecl ==
    [test_prop |-> [cls |-> "Property", default |-> PyNone, allownone |-> TRUE,
                    min |-> PyNone, max |-> PyNone],
     bar       |-> [cls |-> "StringProperty", default |-> StrV(0), allownone |-> FALSE,
                    min |-> PyNone, max |-> PyNone],
     x         |-> [cls |-> "IntProperty", default |-> IntV(XMin), allownone |-> FALSE,
                    min |-> IntV(XMin), max |-> IntV(XMax)]]

NumericClasses == {"IntProperty", "FloatProperty"}

---------------------------------------------------------------------------
(* Dispatcher subclasses.  A class statement `class c(bases)` declares     *)
(* some events (_events_) and some Property attributes; __init_subclass__   *)
(* then sets c._EVENTS_ and c._PROPERTIES_.  A class with no bases listed   *)
(* derives from Dispatcher alone.  _PROPERTIES_ maps each name to a         *)
(* descriptor, which the model identifies by <<name, declaring class>>.     *)

ClassIds  == {"A", "B", "C"}
DeclNames == {"x", "y"}

\* the class statements run in this order
ClassOrder == [A |-> 1, B |-> 2, C |-> 3]

NoClass ==
    [defined |-> FALSE, bases |-> <<>>, mro |-> <<>>, own_events |-> {}, own_props |-> {},
     EVENTS |-> {}, PROPERTIES |-> {}]

NoInstance == [cls |-> "", events |-> {}, props |-> {}]

InTail(h, q) == \E i \in 2..Len(q) : q[i] = h

IsNonEmpty(q) == q # <<>>

\* the merge step of the C3 linearisation; <<"TypeError">> ends an
\* inconsistent one
RECURSIVE c3_merge(_)
c3_merge(seqs) ==
    LET ne == SelectSeq(seqs, IsNonEmpty)
    IN  IF ne = <<>>
        THEN <<>>
        ELSE LET good == {i \in DOMAIN ne : \A j \in DOMAIN ne : ~InTail(Head(ne[i]), ne[j])}
             IN  IF good = {}
                 THEN <<"TypeError">>
                 ELSE LET i == CHOOSE k \in good : \A l \in good : k <= l
                          h == Head(ne[i])
                      IN  <<h>> \o c3_merge([j \in DOMAIN ne |->
                                     IF Head(ne[j]) = h THEN Tail(ne[j]) ELSE ne[j]])

\* c.__mro__ without Dispatcher and object
Mro(tbl, c, bases) ==
    <<c>> \o c3_merge([i \in 1..Len(bases) |-> tbl[bases[i]].mro] \o <<bases>>)

\* getattr(cls, '_EVENTS_', set()) and getattr(cls, '_PROPERTIES_', {}) before
\* cls has them itself: those of the next class in its __mro__ that has them
Inherited(tbl, mro) == IF Len(mro) > 1 THEN tbl[mro[2]] ELSE NoClass

\* Dispatcher.__init_subclass__
init_subclass(tbl, c, bases, evs, prs) ==
    LET mro == Mro(tbl, c, bases)
        inh == Inherited(tbl, mro)
    IN  [defined |-> TRUE, bases |-> bases, mro |-> mro,
         own_events |-> evs, own_props |-> prs,
         EVENTS |-> inh.EVENTS \cup evs,
         PROPERTIES |-> {d \in inh.PROPERTIES : d[1] \notin prs} \cup {<<n, c>> : n \in prs}]

\* Dispatcher.__init_events: one Event per name of _EVENTS_ and of _PROPERTIES_
init_events(cls) ==
    [events |-> cls.EVENTS, props |-> {d[1] : d \in cls.PROPERTIES}]

---------------------------------------------------------------------------
(* Listeners: bound methods of two objects and one plain function *)

Objects == {"o1", "o2", "f1"}
NoSelf  == "<function>"

Callables ==
    { [func |-> "on_event", self |-> "o1"],
      [func |-> "on_stop",  self |-> "o1"],
      [func |-> "on_event", self |-> "o2"],
      [func |-> "f1",       self |-> NoSelf] }

\* The object a callable keeps alive: __self__, or the function itself
OwnerOf(m) == IF m.self = NoSelf THEN m.func ELSE m.self

\* a listener that raises: a method of o2
Raisers == { [func |-> "on_raise", self |-> "o2"] }

\* What each listener returns: on_stop returns False, f1 returns 0, the rest
\* None; on_raise does not return, it raises
ReturnOf(m) ==
    CASE m.func = "on_stop"  -> "False"
      [] m.func = "f1"       -> "0"
      [] m.func = "on_raise" -> "Exception"
      [] OTHER               -> "None"

isfunction(m) == m.self = NoSelf

\* coroutine functions (async def), one method of each of the two objects
Coroutines == {[func |-> "on_coro", self |-> o] : o \in {"o1", "o2"}}

iscoroutinefunction(m) == m.func = "on_coro"


---------------------------------------------------------------------------
(* utils.WeakMethodContainer: a WeakValueDictionary from (function, id(obj)) *)
(* or ("function", id(function)) to the object, held weakly.  The model    *)
(* keeps the dictionary's key set; the value of a key is the object its    *)
(* second component identifies.                                            *)

get_method_vars(m) == <<m.func, m.self>>

\* a variant of add_method that keys a method by the bound-method object it is
\* given (a new object at every attribute access) instead of (f, id(obj))
add_method_PerCall(d, m) ==
    IF isfunction(m)
    THEN d \cup {<<"function", m.func>>}
    ELSE d \cup {<<m.func, m.self, Cardinality(d)>>}

add_method(d, m) ==
    IF isfunction(m)
    THEN d \cup {<<"function", m.func>>}
    ELSE d \cup {get_method_vars(m)}

\* a variant of del_method that removes every entry of the callable's owner
del_method_WholeOwner(d, m) ==
    IF isfunction(m)
    THEN d \ {<<"function", m.func>>}
    ELSE {wrkey \in d : wrkey[2] # m.self}

del_method(d, m) ==
    LET wrkey == IF isfunction(m) THEN <<"function", m.func>> ELSE get_method_vars(m)
    IN  IF wrkey \in d THEN d \ {wrkey} ELSE d

\* a variant of the dictionary that keeps the entries of a dead referent
WeakRemove_KeepsDead(d, obj) == d

\* weakref.WeakValueDictionary: when a referent is collected its entries go
WeakRemove(d, obj) == d \ {wrkey \in d : wrkey[2] = obj}

\* the keys whose referent is still there (self.get(wrkey) is not None)
iter_instances(d, live) == {wrkey \in d : live[wrkey[2]]}

\* a variant of del_instance that stops after the first entry it finds
del_instance_FirstOnly(d, obj, live) ==
    LET found == {wrkey \in iter_instances(d, live) : wrkey[2] = obj}
    IN  IF found = {} THEN d ELSE d \ {CHOOSE wrkey \in found : TRUE}

del_instance(d, obj, live) ==
    d \ {wrkey \in iter_instances(d, live) : wrkey[2] = obj}

\* the callable a key yields: the function itself, or getattr(obj, f.__name__)
iter_methods(wrkey) ==
    IF wrkey[1] = "function"
    THEN [func |-> wrkey[2], self |-> NoSelf]
    ELSE [func |-> wrkey[1], self |-> wrkey[2]]

\* `for wrkey in set(self.keys())`: a set is iterated in no particular order
IterOrders(S) ==
    {o \in [1..Cardinality(S) -> S] : \A i, j \in 1..Cardinality(S) : o[i] = o[j] => i = j}

---------------------------------------------------------------------------
(* aioutils.AioWeakMethodContainer: a WeakMethodContainer of coroutine     *)
(* functions with event_loop_map, a dict from the same keys to the event   *)
(* loop each was bound with; the model keeps that dict as a set of         *)
(* <<key, loop>> pairs.  A container is the record [data, loops].          *)

NoLoop == "<None>"

\* AioWeakMethodContainer.add_method(loop, callback)
aio_add_method(c, loop, m) ==
    LET wrkey == get_method_vars(m)
    IN  [data  |-> c.data \cup {wrkey},
         loops |-> {e \in c.loops : e[1] # wrkey} \cup {<<wrkey, loop>>}]

\* AioWeakMethodContainer.__delitem__(key) and _on_weakref_fin(key), for every
\* key that left the dictionary
aio_delitems(c, data) ==
    [data |-> data, loops |-> {e \in c.loops : e[1] \notin c.data \ data}]

\* self.event_loop_map[wrkey]
LoopOf(c, wrkey) == (CHOOSE e \in c.loops : e[1] = wrkey)[2]

\* AioWeakMethodContainer.__call__: each live coroutine function is called with
\* the payload and the coroutine is submitted to the loop it was bound with
aio_call(c, live, payload) ==
    {[cb |-> iter_methods(wrkey), loop |-> LoopOf(c, wrkey), payload |-> payload] :
        wrkey \in iter_instances(c.data, live)}

---------------------------------------------------------------------------
(* dispatch.Event *)

\* a variant that stops on any falsy return value (`if not r`)
StopsDispatch_Falsy(r) == r \in {"False", "0", "None"}

\* `if r is False: return r`
StopsDispatch(r) == r = "False"

\* a variant in which the loop catches what a listener raises and goes on
Raises_Caught(r) == FALSE

\* `r = m(*args, **kwargs)` is inside no try: what m raises leaves the loop,
\* __call__ and every caller up to the one that made the emit
Raises(r) == r = "Exception"

\* the loop of Event.__call__ over self.listeners.iter_methods()
RECURSIVE RunListeners(_, _, _, _)
RunListeners(order, payload, seen, acc) ==
    IF order = <<>>
    THEN [calls |-> acc, ret |-> "None"]
    ELSE LET m == iter_methods(Head(order))
             r == ReturnOf(m)
             c == Append(acc, [cb |-> m, payload |-> payload, seen |-> seen])
         IN  IF StopsDispatch(r) \/ Raises(r)
             THEN [calls |-> c, ret |-> r]
             ELSE RunListeners(Tail(order), payload, seen, c)

\* a variant of Event.__call__ that keeps the first held emission, not the last
EventCall_KeepsFirst(lk, payload, order, seen) ==
    IF lk.held
    THEN [held |-> lk.held,
          last_event |-> IF lk.last_event = NoEvent THEN payload ELSE lk.last_event,
          calls |-> <<>>, dispatched |-> <<>>, ret |-> "None"]
    ELSE LET r == RunListeners(order, payload, seen, <<>>)
         IN  [held |-> lk.held, last_event |-> lk.last_event,
              calls |-> r.calls, dispatched |-> <<payload>>, ret |-> r.ret]

\* Event.__call__(*args, **kwargs) on a channel whose lock is lk; `seen` is
\* what a listener reads from the property while it runs
EventCall(lk, payload, order, seen) ==
    IF lk.held
    THEN [held |-> lk.held, last_event |-> payload,
          calls |-> <<>>, dispatched |-> <<>>, ret |-> "None"]
    ELSE LET r == RunListeners(order, payload, seen, <<>>)
         IN  [held |-> lk.held, last_event |-> lk.last_event,
              calls |-> r.calls, dispatched |-> <<payload>>, ret |-> r.ret]

\* Event.add_listener(callback) with a plain (not coroutine) callback
Event_add_listener(d, m) == add_method(d, m)

\* Event.add_listener(callback, __aio_loop__=loop) with a coroutine function
\* and a loop
Event_add_aio_listener(c, loop, m) == aio_add_method(c, loop, m)

\* an unbind target is a callable (func # "") or any other object
IsCallable(t) == t.func # ""

\* Event.remove_listener(obj) on self.listeners
Event_remove_listener(d, t, live) ==
    IF IsCallable(t)
    THEN del_method(d, t)
    ELSE del_instance(d, t.self, live)

\* Event.remove_listener(obj) on self.aio_listeners
Event_remove_aio_listener(c, t, live) ==
    aio_delitems(c, Event_remove_listener(c.data, t, live))

---------------------------------------------------------------------------
(* utils.EmissionHoldLock *)

Loops    == {"loop1", "loop2"}
Contexts == {"sync"} \cup Loops

acquire(lk) ==
    IF lk.held
    THEN lk
    ELSE [held |-> TRUE, last_event |-> NoEvent]

release(lk, order, seen) ==
    IF ~lk.held
    THEN [held |-> lk.held, last_event |-> lk.last_event,
          calls |-> <<>>, dispatched |-> <<>>, ret |-> "None"]
    ELSE IF lk.last_event # NoEvent
         THEN EventCall([held |-> FALSE, last_event |-> NoEvent],
                        lk.last_event, order, seen)
         ELSE [held |-> lk.held, last_event |-> lk.last_event,
               calls |-> <<>>, dispatched |-> <<>>, ret |-> "None"]


\* asyncio.Lock of one event loop in aio_locks: "absent" until _build_aio_lock
\* creates it
build_aio_lock(l) == IF l = "absent" THEN "unlocked" ELSE l

---------------------------------------------------------------------------
(* properties.Property and its typed subclasses *)

\* an entry of NumericProperty.__range_storage: absent, or the pair (vmin, vmax)
NoRange == [set |-> FALSE, min |-> PyNone, max |-> PyNone]
Range(vmin, vmax) == [set |-> TRUE, min |-> vmin, max |-> vmax]

\* a variant of get_range that ignores the instance's own range
get_range_ClassOnly(p, r) == <<PropDecl[p].min, PropDecl[p].max>>

\* NumericProperty.get_range(obj)
get_range(p, r) ==
    IF r.set
    THEN <<r.min, r.max>>
    ELSE <<PropDecl[p].min, PropDecl[p].max>>

Valid(v)     == [ok |-> TRUE, err |-> "None", value |-> v]
Invalid(err) == [ok |-> FALSE, err |-> err, value |-> NoVal]

\* isinstance(value, cls._value_type_abc): numbers.Integral, numbers.Real
IsInstanceAbc(cls, v) ==
    IF cls = "IntProperty"
    THEN v.t \in {"int", "bool"}
    ELSE v.t \in {"int", "bool", "float"}

\* NumericProperty._coerce_value(obj, value)
coerce_value(cls, v) ==
    IF ~IsInstanceAbc(cls, v)
    THEN Invalid("InvalidTypeError")
    ELSE IF cls = "IntProperty" THEN Valid(IntV(v.n)) ELSE Valid(FloatV(v.n))

\* _validate_value(obj, value) of Property, StringProperty, BoolProperty and
\* NumericProperty, for a value that is not None
validate_value(p, v, r) ==
    LET cls == PropDecl[p].cls
    IN  CASE cls = "Property" -> Valid(v)
          [] cls = "StringProperty" ->
                IF v.t # "str" THEN Invalid("InvalidTypeError") ELSE Valid(v)
          [] cls = "BoolProperty" ->
                IF v.t # "bool" THEN Invalid("InvalidTypeError") ELSE Valid(v)
          [] cls \in NumericClasses ->
                IF v.t = "bool"
                THEN Invalid("InvalidTypeError")
                ELSE LET c    == coerce_value(cls, v)
                         vmin == get_range(p, r)[1]
                         vmax == get_range(p, r)[2]
                     IN  IF ~c.ok THEN c
                         ELSE IF vmin # PyNone /\ c.value.n < vmin.n
                              THEN Invalid("OutOfRangeError")
                         ELSE IF vmax # PyNone /\ c.value.n > vmax.n
                              THEN Invalid("OutOfRangeError")
                         ELSE c

\* a variant of the change test that compares identity instead of equality
SameValue_Identity(current, value) == current = value

\* `if current == value: return`
SameValue(current, value) == PyEq(current, value)

\* a variant of __set__ that notifies before it stores
SetAndNotify_NotifyFirst(p, current, value, lk, order) ==
    [stored |-> value] @@ EventCall(lk, PropPayload(p, value, current), order, current)

\* the last two lines of Property.__set__: store, then _on_change, which is
\* obj.emit(self.name, obj, value, old=old, property=self)
SetAndNotify(p, current, value, lk, order) ==
    [stored |-> value] @@ EventCall(lk, PropPayload(p, value, current), order, value)

\* what a call that changes and dispatches nothing leaves behind
Untouched(current, lk, result) ==
    [stored |-> current, held |-> lk.held, last_event |-> lk.last_event,
     calls |-> <<>>, dispatched |-> <<>>, ret |-> result]

\* a variant of __set__ under which a held lock defers the store as well
Property_set_DefersStore(p, v, current, r, lk, order) ==
    IF v = PyNone /\ ~PropDecl[p].allownone
    THEN Untouched(current, lk, "NoneNotAllowedError")
    ELSE LET val == IF v # PyNone THEN validate_value(p, v, r) ELSE Valid(v)
         IN  IF ~val.ok THEN Untouched(current, lk, val.err)
             ELSE IF SameValue(current, val.value) THEN Untouched(current, lk, "None")
             ELSE [SetAndNotify(p, current, val.value, lk, order)
                     EXCEPT !.ret = IF Raises(@) THEN @ ELSE "None",
                            !.stored = IF lk.held THEN current ELSE @]

\* Property.__set__(obj, value)
Property_set(p, v, current, r, lk, order) ==
    IF v = PyNone /\ ~PropDecl[p].allownone
    THEN Untouched(current, lk, "NoneNotAllowedError")
    ELSE LET val == IF v # PyNone THEN validate_value(p, v, r) ELSE Valid(v)
         IN  IF ~val.ok THEN Untouched(current, lk, val.err)
             ELSE IF SameValue(current, val.value) THEN Untouched(current, lk, "None")
             ELSE [SetAndNotify(p, current, val.value, lk, order)
                     EXCEPT !.ret = IF Raises(@) THEN @ ELSE "None"]

---------------------------------------------------------------------------
(* Container properties (properties.py): test_list = ListProperty() and    *)
(* test_dict = DictProperty().  Every list and dict object is a cell of    *)
(* `heap`; a cell's elements are scalars or references to other cells.     *)
(* `obs` tells an ObservableList / ObservableDict from a plain list /      *)
(* dict.  Lists are indexed from 0 as in Python: element k is items[k+1].  *)

ObjIds   == 1..MaxObjs
Overflow == MaxObjs + 1     \* a cell that is marked when no object is free
NoParent == 0

Ref(i)     == [t |-> "ref", n |-> i]
ListLit(k) == [t |-> "list", n |-> k]   \* the list literal ListLiterals[k]
DictLit(k) == [t |-> "dict", n |-> k]   \* the dict literal DictLiterals[k]

ContScalars == {IntV(0), IntV(1)}
DictKeys    == {"a", "b"}
DictKeySeq  == <<"a", "b">>             \* the order in which a dict is iterated
NoItems     == [k \in DictKeys |-> NoVal]

\* [], [0], [0, 1], [[0]]
ListLiterals == << <<>>, <<IntV(0)>>, <<IntV(0), IntV(1)>>, <<ListLit(2)>> >>

\* {}, {'a': 0}, {'a': 1, 'b': 0}, {'a': {}}
DictLiterals ==
    << NoItems,
       [k \in DictKeys |-> IF k = "a" THEN IntV(0) ELSE NoVal],
       [k \in DictKeys |-> IF k = "a" THEN IntV(1) ELSE IntV(0)],
       [k \in DictKeys |-> IF k = "a" THEN DictLit(1) ELSE NoVal] >>

NoObj ==
    [kind |-> "free", obs |-> FALSE, items |-> <<>>, map |-> NoItems,
     parent |-> NoParent, property |-> "", init_complete |-> FALSE]

\* list() / dict(): a new plain object
NewPlain(kind) == [NoObj EXCEPT !.kind = kind]

\* the first lines of ObservableList.__init__ / ObservableDict.__init__:
\* self._init_complete = False, self.property, self.parent_observable
NewObservable(kind, parent, prop) ==
    [NoObj EXCEPT !.kind = kind, !.obs = TRUE, !.parent = parent, !.property = prop]

Free(h)  == {i \in ObjIds : h[i].kind = "free"}
Alloc(h) == CHOOSE i \in Free(h) : \A j \in Free(h) : i <= j
Full(h)  == [heap |-> [h EXCEPT ![Overflow].kind = "full"], val |-> PyNone, emits |-> <<>>]

\* isinstance(item, list), isinstance(item, dict), and the elements of item
IsList(h, v) == v.t = "list" \/ (v.t = "ref" /\ h[v.n].kind = "list")
IsDict(h, v) == v.t = "dict" \/ (v.t = "ref" /\ h[v.n].kind = "dict")
ItemsOf(h, v) == IF v.t = "list" THEN ListLiterals[v.n] ELSE h[v.n].items
MapOf(h, v)   == IF v.t = "dict" THEN DictLiterals[v.n] ELSE h[v.n].map

\* the contents of a value, for ==: lists and dicts compare by contents
RECURSIVE Term(_, _)
Term(h, v) ==
    IF IsList(h, v)
    THEN [t |-> "list", n |-> 0,
          items |-> [k \in 1..Len(ItemsOf(h, v)) |-> Term(h, ItemsOf(h, v)[k])],
          map |-> <<>>]
    ELSE IF IsDict(h, v)
    THEN [t |-> "dict", n |-> 0, items |-> <<>>,
          map |-> [k \in 1..Len(DictKeySeq) |-> Term(h, MapOf(h, v)[DictKeySeq[k]])]]
    ELSE [t |-> v.t, n |-> v.n, items |-> <<>>, map |-> <<>>]

DeepEq(h, v, w) == Term(h, v) = Term(h, w)

\* the root of the parent chain of container i
RECURSIVE RootOf(_, _)
RootOf(h, i) == IF h[i].parent = NoParent THEN i ELSE RootOf(h, h[i].parent)

\* what a copy holds in place of the value v of an element: the deep copy of
\* an observable child, the very object of a plain list or dict, the scalar
RECURSIVE deepcopy(_, _)
CopyOf(h, v) ==
    IF v.t = "ref" /\ h[v.n].obs THEN deepcopy(h, v.n)
    ELSE [t |-> v.t, n |-> v.n, items |-> <<>>, map |-> <<>>]

\* Observable._deepcopy: o = self.copy(), and every element that is an
\* Observable is replaced in o by its own _deepcopy()
deepcopy(h, i) ==
    IF h[i].kind = "list"
    THEN [t |-> "list", n |-> 0,
          items |-> [k \in 1..Len(h[i].items) |-> CopyOf(h, h[i].items[k])],
          map |-> <<>>]
    ELSE [t |-> "dict", n |-> 0, items |-> <<>>,
          map |-> [k \in 1..Len(DictKeySeq) |-> CopyOf(h, h[i].map[DictKeySeq[k]])]]

\* self.copy_on_change, which __init__ takes from the property
CopyOnChange(h, i) == h[i].property # "" /\ copy_on_change[h[i].property]

\* Observable._get_copy_or_none: the parent's answer if there is a parent,
\* None without copy_on_change, else the deep copy
RECURSIVE get_copy_or_none(_, _)
get_copy_or_none(h, i) ==
    IF h[i].parent # NoParent THEN get_copy_or_none(h, h[i].parent)
    ELSE IF ~CopyOnChange(h, i) THEN PyNone
    ELSE deepcopy(h, i)

\* property._on_change(obj, old, value) of the root `i`, as a dispatch to make
OnChange(h, i, old) == [prop |-> h[i].property, value |-> Ref(i), old |-> old]

\* Observable._emit_change: nothing while the container is being built, else
\* relay to the parent; the root calls property._on_change(obj, old, self).
\* The result is the list of the dispatches to make
RECURSIVE emit_change(_, _, _)
emit_change(h, i, old) ==
    IF ~h[i].init_complete THEN <<>>
    ELSE IF h[i].parent # NoParent THEN emit_change(h, h[i].parent, old)
    ELSE << OnChange(h, i, old) >>

Done(h, emits) == [heap |-> h, emits |-> emits]

(* The methods list and dict provide; their arguments are values           *)

list_setitem(h, i, k, v) == [h EXCEPT ![i].items[k + 1] = v]
\* a slice runs from a to b, both cut to the length of the list
Clip(n, len) == IF n > len THEN len ELSE n

list_setslice(h, i, a, b, vs) ==
    [h EXCEPT ![i].items = SubSeq(@, 1, Clip(a, Len(@))) \o vs
                           \o SubSeq(@, Clip(b, Len(@)) + 1, Len(@))]
list_delslice(h, i, a, b) ==
    [h EXCEPT ![i].items = SubSeq(@, 1, Clip(a, Len(@)))
                           \o SubSeq(@, Clip(b, Len(@)) + 1, Len(@))]
list_delitem(h, i, k)   == list_delslice(h, i, k, k + 1)
list_append(h, i, v)    == [h EXCEPT ![i].items = Append(@, v)]
list_insert(h, i, k, v) ==
    [h EXCEPT ![i].items = SubSeq(@, 1, k) \o <<v>> \o SubSeq(@, k + 1, Len(@))]
list_clear(h, i)        == [h EXCEPT ![i].items = <<>>]

\* the index of the first element equal to v, or -1
list_index(h, i, v) ==
    LET hits == {k \in 0..(Len(h[i].items) - 1) : DeepEq(h, h[i].items[k + 1], v)}
    IN  IF hits = {} THEN -1 ELSE CHOOSE k \in hits : \A j \in hits : k <= j

dict_setitem(h, i, key, v) == [h EXCEPT ![i].map[key] = v]
dict_delitem(h, i, key)    == [h EXCEPT ![i].map[key] = NoVal]
dict_clear(h, i)           == [h EXCEPT ![i].map = NoItems]
dict_setdefault(h, i, key, v) ==
    IF h[i].map[key] = NoVal THEN dict_setitem(h, i, key, v) ELSE h

(* A literal evaluated by the caller: plain lists and dicts                *)

RECURSIVE plain(_, _)
RECURSIVE plain_items(_, _, _)
RECURSIVE plain_map(_, _, _, _)

plain_items(h, i, vs) ==
    IF vs = <<>> THEN h
    ELSE LET e == plain(h, Head(vs))
         IN  plain_items(list_append(e.heap, i, e.val), i, Tail(vs))

plain_map(h, i, m, ks) ==
    IF ks = <<>> THEN h
    ELSE IF m[Head(ks)] = NoVal THEN plain_map(h, i, m, Tail(ks))
    ELSE LET e == plain(h, m[Head(ks)])
         IN  plain_map(dict_setitem(e.heap, i, Head(ks), e.val), i, m, Tail(ks))

plain(h, item) ==
    IF item.t \notin {"list", "dict"} THEN [heap |-> h, val |-> item, emits |-> <<>>]
    ELSE IF Free(h) = {} THEN Full(h)
    ELSE LET i  == Alloc(h)
             h0 == [h EXCEPT ![i] = NewPlain(item.t)]
         IN  [heap |-> IF item.t = "list"
                       THEN plain_items(h0, i, ListLiterals[item.n])
                       ELSE plain_map(h0, i, DictLiterals[item.n], DictKeySeq),
              val |-> Ref(i), emits |-> <<>>]

(* Observable, ObservableList and ObservableDict                           *)

\* the call has left r; then self._emit_change(old=old) on container i, old
\* being what the method took with self._get_copy_or_none() as it began
Notify(r, i, old) == Done(r.heap, r.emits \o emit_change(r.heap, i, old))

\* a method of list or dict itself: it notifies nobody
Plainly(h) == Done(h, <<>>)

\* super().method(...) has left r on container i; an observable container
\* then calls self._emit_change(old=old)
Finish(r, i, old) == IF r.heap[i].obs THEN Notify(r, i, old) ELSE r

\* r, and then the dispatches of s
Then(r, s) == Done(s.heap, r.emits \o s.emits)

\* self._init_complete = flag on container i
SetInit(r, i, flag) == Done([r.heap EXCEPT ![i].init_complete = flag], r.emits)

\* the value b.val built for container i goes to the end of it, or under key
Appended(b, i)  == Done(list_append(b.heap, i, b.val), b.emits)
Keyed(b, i, key) == Done(dict_setitem(b.heap, i, key, b.val), b.emits)

RECURSIVE build_observable(_, _, _)
RECURSIVE ObservableList_init(_, _, _, _)
RECURSIVE ObservableDict_init(_, _, _, _)
RECURSIVE ObservableList_append(_, _, _)
RECURSIVE AppendEach(_, _, _)
RECURSIVE ObservableList_extend(_, _, _)
RECURSIVE ObservableDict_setitem(_, _, _, _)
RECURSIVE SetEach(_, _, _, _, _)
RECURSIVE ObservableDict_update(_, _, _)
RECURSIVE NewList(_, _, _, _, _)
RECURSIVE NewDict(_, _, _, _, _)
RECURSIVE AppendRest(_, _, _)
RECURSIVE SetRest(_, _, _, _, _)

\* Observable._build_observable(item), called on container i
build_observable(h, i, item) ==
    IF IsList(h, item) THEN ObservableList_init(h, ItemsOf(h, item), i, "")
    ELSE IF IsDict(h, item) THEN ObservableDict_init(h, MapOf(h, item), i, "")
    ELSE [heap |-> h, val |-> item, emits |-> <<>>]

\* ObservableList.append(item)
ObservableList_append(h, i, item) ==
    Notify(Appended(build_observable(h, i, item), i), i, get_copy_or_none(h, i))

\* for item in other: self.append(item)
AppendRest(a, i, other) == Then(a, AppendEach(a.heap, i, other))

AppendEach(h, i, other) ==
    IF other = <<>> THEN Done(h, <<>>)
    ELSE AppendRest(ObservableList_append(h, i, Head(other)), i, Tail(other))

\* a variant of extend that leaves _init_complete alone while it appends
ObservableList_extend_Loud(h, i, other) ==
    Notify(AppendEach(h, i, other), i, get_copy_or_none(h, i))

\* ObservableList.extend(other)
ObservableList_extend(h, i, other) ==
    Notify(SetInit(AppendEach([h EXCEPT ![i].init_complete = FALSE], i, other),
                   i, h[i].init_complete),
           i, get_copy_or_none(h, i))

\* the last line of ObservableList.__init__ and ObservableDict.__init__:
\* self._init_complete = True; the new object is the result
Built(r, i) ==
    [heap |-> [r.heap EXCEPT ![i].init_complete = TRUE], val |-> Ref(i), emits |-> r.emits]

NewList(h, i, initlist, parent, prop) ==
    Built(ObservableList_extend([h EXCEPT ![i] = NewObservable("list", parent, prop)],
                                i, initlist), i)

\* ObservableList(initlist, parent=parent, property=prop)
ObservableList_init(h, initlist, parent, prop) ==
    IF Free(h) = {} THEN Full(h) ELSE NewList(h, Alloc(h), initlist, parent, prop)

\* ObservableList.__setitem__(k, item) with an index
PutAt(b, i, k) == Done(list_setitem(b.heap, i, k, b.val), b.emits)

ObservableList_setitem(h, i, k, item) ==
    Notify(PutAt(build_observable(h, i, item), i, k), i, get_copy_or_none(h, i))

\* ObservableList.__setitem__(slice(a, b), item): the elements of the
\* observable built from item go into the list
PutSlice(t, i, a, b) ==
    IF t.val.t = "ref"
    THEN Done(list_setslice(t.heap, i, a, b, t.heap[t.val.n].items), t.emits)
    ELSE Done(t.heap, t.emits)

\* ObservableList.__iadd__(other): other = self._build_observable(other), then
\* self.extend(other)
ExtendWith(t, i) ==
    IF t.val.t = "ref"
    THEN Then(t, ObservableList_extend(t.heap, i, t.heap[t.val.n].items))
    ELSE Done(t.heap, t.emits)

\* ObservableDict.__setitem__(key, item)
ObservableDict_setitem(h, i, key, item) ==
    Notify(Keyed(build_observable(h, i, item), i, key), i, get_copy_or_none(h, i))

\* the loop of ObservableDict.update; `keys` are the keys update adds
SetRest(s, i, other, ks, keys) == Then(s, SetEach(s.heap, i, other, ks, keys))

SetEach(h, i, other, ks, keys) ==
    IF ks = <<>> THEN Done(h, <<>>)
    ELSE SetRest(IF other[Head(ks)] = NoVal
                    \/ (Head(ks) \notin keys
                        /\ DeepEq(h, h[i].map[Head(ks)], other[Head(ks)]))
                 THEN Done(h, <<>>)
                 ELSE ObservableDict_setitem(h, i, Head(ks), other[Head(ks)]),
                 i, other, Tail(ks), keys)

\* ObservableDict.update(other)
ObservableDict_update(h, i, other) ==
    Notify(SetInit(SetEach([h EXCEPT ![i].init_complete = FALSE], i, other, DictKeySeq,
                           {k \in DictKeys : other[k] # NoVal /\ h[i].map[k] = NoVal}),
                   i, h[i].init_complete),
           i, get_copy_or_none(h, i))

NewDict(h, i, initdict, parent, prop) ==
    Built(ObservableDict_update([h EXCEPT ![i] = NewObservable("dict", parent, prop)],
                                i, initdict), i)

\* ObservableDict(initdict, parent=parent, property=prop)
ObservableDict_init(h, initdict, parent, prop) ==
    IF Free(h) = {} THEN Full(h) ELSE NewDict(h, Alloc(h), initdict, parent, prop)

(* What stays alive: the containers the two properties hold, their         *)
(* elements, and the parents these refer to                                *)

RefsOf(h, i) ==
    {h[i].items[k].n : k \in {j \in DOMAIN h[i].items : h[i].items[j].t = "ref"}}
    \cup {h[i].map[k].n : k \in {j \in DictKeys : h[i].map[j].t = "ref"}}
    \cup ({h[i].parent} \ {NoParent})

RECURSIVE Reach(_, _, _)
Reach(h, S, n) ==
    IF n = 0 THEN S ELSE Reach(h, S \cup UNION {RefsOf(h, i) : i \in S}, n - 1)

Keep(h, live) == [i \in DOMAIN h |-> IF i \in live THEN h[i] ELSE NoObj]

collect(h, roots) == Keep(h, Reach(h, roots, MaxObjs))

\* the elements a container holds, down to any depth
RECURSIVE Below(_, _, _)
Below(h, S, n) ==
    IF n = 0 THEN S
    ELSE Below(h, S \cup UNION {RefsOf(h, i) \ {h[i].parent} : i \in S}, n - 1)

\* the kind of container each property holds
ContainerDecl == [test_list |-> "list", test_dict |-> "dict"]

\* Property.__set__: `if current == value: return`, on containers
SameContainer(h, current, value) == DeepEq(h, current, value)

\* ListProperty.__set__ / DictProperty.__set__: wrap the value in a new
\* observable, then Property.__set__
Property_set_container(b, p, current) ==
    IF b.val = PyNone \/ SameContainer(b.heap, current, b.val)
    THEN [heap |-> b.heap, stored |-> current, emits |-> b.emits]
    ELSE [heap |-> b.heap, stored |-> b.val,
          emits |-> b.emits \o << [prop |-> p, value |-> b.val, old |-> current] >>]

ContainerProperty_set(h, p, current, item) ==
    Property_set_container(IF ContainerDecl[p] = "list"
                           THEN ObservableList_init(h, ItemsOf(h, item), NoParent, p)
                           ELSE ObservableDict_init(h, MapOf(h, item), NoParent, p),
                           p, current)

---------------------------------------------------------------------------
(* Further instances of the sender's class, for what instances share: the  *)
(* class has test_list = ListProperty([0]), test_dict = DictProperty() and *)
(* the IntProperty x.  Property.__storage, __range_storage and __weakrefs  *)
(* are keyed by id(obj); `objs` holds each instance's entries.             *)

InstIds   == {"a", "b"}
InstProps == ContainerProps \cup {"x"}

\* Property.default of the container properties: one list and one dict object
\* of the class, in the heap cells 1 and 2
DefaultCell == [test_list |-> 1, test_dict |-> 2]

Default(p) == IF p \in ContainerProps THEN Ref(DefaultCell[p]) ELSE PropDecl[p].default

\* an instance that does not exist: no entry under its id anywhere
NoInst ==
    [state |-> "unborn", store |-> [p \in InstProps |-> NoVal], range |-> NoRange,
     weakrefs |-> {}]

\* Property._add_instance(obj, default): the entry is self.default whatever
\* `default` the subclass passed, and the instance gets a weak reference
Property_add_instance(o, p) ==
    [o EXCEPT !.store[p] = Default(p), !.weakrefs = @ \cup {p}]

\* Dispatcher.__init_events: prop._add_instance(self) for every property
RECURSIVE add_instances(_, _)
add_instances(o, ps) ==
    IF ps = {} THEN o
    ELSE LET p == CHOOSE q \in ps : TRUE
         IN  add_instances(Property_add_instance(o, p), ps \ {p})

\* a variant of the finalizer that leaves the instance's range behind
on_weakref_fin_KeepsRange(o, p) == [o EXCEPT !.store[p] = NoVal]

\* Property._on_weakref_fin(obj_id), and NumericProperty._on_weakref_fin, which
\* also drops the instance's range
on_weakref_fin(o, p) ==
    [o EXCEPT !.store[p] = NoVal,
              !.range = IF p \notin ContainerProps /\ PropDecl[p].cls \in NumericClasses
                        THEN NoRange ELSE @]

\* InformativeWVDict: when the instance dies, the `remove` callback of each
\* property's __weakrefs drops the key and calls del_callback(key)
RECURSIVE finalize(_, _)
finalize(o, ps) ==
    IF ps = {} THEN o
    ELSE LET p == CHOOSE q \in ps : TRUE
         IN  finalize([on_weakref_fin(o, p) EXCEPT !.weakrefs = @ \ {p}], ps \ {p})

\* ListProperty.__get__ / DictProperty.__get__: a stored value that is not an
\* observable container is wrapped, and the wrapper is stored
ContainerProperty_get(h, p, current) ==
    IF h[current.n].obs THEN [heap |-> h, val |-> current, emits |-> <<>>]
    ELSE IF ContainerDecl[p] = "list"
    THEN ObservableList_init(h, ItemsOf(h, current), NoParent, p)
    ELSE ObservableDict_init(h, MapOf(h, current), NoParent, p)

---------------------------------------------------------------------------
(* decorators.CallbackCache: a WeakMethodContainer per cached event name *)

CacheNames == NewEventNames

\* the callables given to @receiver, and their keys in a container
CacheCallables == {m \in Callables : m.func # "on_stop"}
CacheKeys      == UNION {add_method({}, m) : m \in CacheCallables}

\* self.cache.get(name) is None
NoCache == [present |-> FALSE, data |-> {}]

\* CallbackCache.add(name, func)
CallbackCache_add(c, name, m) ==
    [c EXCEPT ![name] = [present |-> TRUE, data |-> add_method(@.data, m)]]

\* bind_kwargs = {name: cb for cb in _CACHED_CALLBACKS.get(name)}, then
\* _GLOBAL_DISPATCHER.bind(**bind_kwargs): a dict with the one key `name`,
\* whose value is the last callback the cache yields; `order` is the order in
\* which the cache's container yields its keys
HookBind(sync, name, order) ==
    IF order = <<>> THEN sync
    ELSE [sync EXCEPT ![name] =
            Event_add_listener(@, iter_methods(order[Len(order)]))]

\* decorators._post_register_hook(*names): for each name that is in the
\* cache, CallbackCache.get(name) deletes the entry and the hook binds
RECURSIVE post_register_hook(_, _, _, _)
post_register_hook(sync, c, names, orders) ==
    IF names = <<>> THEN [sync |-> sync, cache |-> c]
    ELSE IF ~c[Head(names)].present
    THEN post_register_hook(sync, c, Tail(names), orders)
    ELSE post_register_hook(HookBind(sync, Head(names), orders[Head(names)]),
                            [c EXCEPT ![Head(names)] = NoCache], Tail(names), orders)

---------------------------------------------------------------------------
(* aioutils.AioEventWaiters of the event on_test: `waiters`, a set of      *)
(* AioEventWaiter objects, and `lock`, an AioSimpleLock around a           *)
(* threading.Lock.  The thread that emits and the event loops that await   *)
(* the event run at the same time; each is at a place in its code.         *)

WaiterIds == 1..MaxWaiters
Emitter   == "emit"
Threads   == {Emitter} \cup {"loop1", "loop2"}

\* AioEventWaiters.__init__; no AioEventWaiter exists yet
NoWaiters ==
    [lock    |-> "free",
     waiters |-> {},
     state   |-> [w \in WaiterIds |-> "unborn"],
     args    |-> [w \in WaiterIds |-> <<>>],
     by      |-> [w \in WaiterIds |-> NoEvent],
     pc      |-> [t \in Threads |-> "idle"],
     todo    |-> {},
     payload |-> NoEvent]

\* a variant of the lock that lets everybody in
lock_acquire_Open(lock) == TRUE

\* threading.Lock.acquire: AioSimpleLock.__enter__ blocks until it returns
\* True, acquire_async polls acquire(blocking=False) until it does
lock_acquire(lock) == lock = "free"

\* AioEventWaiter.trigger(*args, **kwargs) of waiter w: the payload is kept
\* for wait() and aio_event is set
trigger(aw, w) == [aw EXCEPT !.args[w] = Append(@, aw.payload)]

---------------------------------------------------------------------------
(* The state after `sender = Sender()`: __init_events has created an Event *)
(* per declared name and stored every property's default.  In ReadHeap the *)
(* sender's test_list and test_dict have been read once, so that each is   *)
(* stored as an observable container; in FreshHeap they still are the      *)
(* class's own default objects, [0] and {}.                                *)

NoCallable == [func |-> "", self |-> ""]

NoPre == [held |-> FALSE, pending |-> NoEvent, bound |-> FALSE, stored |-> NoVal]

\* the record of a call: what was called with what, how it ended, and what
\* held just before it
Op(kind, name, ctx, arg, target, result, pre) ==
    [kind |-> kind, name |-> name, ctx |-> ctx, arg |-> arg,
     target |-> target, result |-> result, pre |-> pre]

ReadHeap ==
    [i \in 1..Overflow |->
        IF i = 1 THEN [NewObservable("list", NoParent, "test_list")
                         EXCEPT !.init_complete = TRUE]
        ELSE IF i = 2 THEN [NewObservable("dict", NoParent, "test_dict")
                              EXCEPT !.init_complete = TRUE]
        ELSE NoObj]

FreshHeap ==
    [i \in 1..Overflow |->
        IF i = DefaultCell["test_list"] THEN [NewPlain("list") EXCEPT !.items = <<IntV(0)>>]
        ELSE IF i = DefaultCell["test_dict"] THEN NewPlain("dict")
        ELSE NoObj]

Start(h, coc) ==
    /\ events = EventNames
    /\ listeners = [n \in Channels |-> {}]
    /\ aio_listeners = [n \in Channels |-> {}]
    /\ event_loop_map = [n \in Channels |-> {}]
    /\ alive = [o \in Objects |-> TRUE]
    /\ held = [n \in Channels |-> FALSE]
    /\ last_event = [n \in Channels |-> NoEvent]
    /\ aio_locks = [n \in Channels |-> [l \in Loops |-> "absent"]]
    /\ storage = [p \in PropNames \cup ContainerProps |->
                     IF p \in PropNames THEN PropDecl[p].default
                     ELSE IF p = "test_list" THEN Ref(1) ELSE Ref(2)]
    /\ heap = h
    /\ receiver = 0
    /\ copy_on_change = [p \in ContainerProps |-> coc]
    /\ objs = [a \in InstIds |-> NoInst]
    /\ cache = [n \in CacheNames |-> NoCache]
    /\ aio_waiters = NoWaiters
    /\ kept = 0
    /\ emitting = [l \in Loops |-> NoEvent]
    /\ loop_queue = [l \in Loops |-> <<>>]
    /\ range_storage = [p \in PropNames |-> NoRange]
    /\ depth = [n \in Channels |-> [c \in Contexts |-> 0]]
    /\ nHeld = [n \in Channels |-> 0]
    /\ lastHeld = [n \in Channels |-> NoEvent]
    /\ diedBound = {}
    /\ op = Op("init", "", "", NoVal, NoCallable, "None", NoPre)
    /\ calls = <<>>
    /\ dispatched = <<>>
    /\ scheduled = {}
    /\ classes = [c \in ClassIds |-> NoClass]
    /\ instance = NoInstance

\* copy_on_change is False unless the class asks for it
Init == Start(ReadHeap, FALSE)

\* the names bind, emit and the lookups find: `name in props`, else events[name]
Known == PropNames \cup ContainerProps \cup events

\* a channel's aio_listeners container
Aio(name) == [data |-> aio_listeners[name], loops |-> event_loop_map[name]]

\* the listener containers of all channels, and putting them back
ChanState == [sync |-> listeners, aio |-> [n \in Channels |-> Aio(n)]]

SetChan(ch) ==
    /\ listeners' = ch.sync
    /\ aio_listeners' = [n \in Channels |-> ch.aio[n].data]
    /\ event_loop_map' = [n \in Channels |-> ch.aio[n].loops]

\* a variant with one lock for all the channels of the sender
Lock_OnePerSender(name) ==
    [held |-> \E n \in Channels : held[n], last_event |-> last_event[name]]

\* Event.emission_lock: every Event has an EmissionHoldLock of its own
Lock(name) == [held |-> held[name], last_event |-> last_event[name]]

\* before a call on channel `name`: is its lock held, what is pending, has
\* any channel an entry
\* whose referent is `owner`, what does the property store
Pre(name, owner) ==
    [held   |-> name \in Known /\ held[name],
     pending |-> IF name \in Known THEN last_event[name] ELSE NoEvent,
     bound  |-> \E n \in Channels : \E k \in listeners[n] : k[2] = owner,
     stored |-> IF name \in PropNames THEN storage[name] ELSE NoVal]

SeenOf(name, store) == IF name \in PropNames THEN store[name] ELSE NoVal

LiveOrders(name) == IterOrders(iter_instances(listeners[name], alive))

OpenScopes(name) ==
    depth[name]["sync"] + depth[name]["loop1"] + depth[name]["loop2"]

\* the caller sees: the call's record, the listener calls, the dispatches;
\* each dispatch has first run the channel's aio_listeners (Event.__call__)
Observed(o, e) ==
    /\ op' = o
    /\ calls' = e.calls
    /\ dispatched' = e.dispatched
    /\ scheduled' = IF e.dispatched = <<>>
                    THEN {}
                    ELSE aio_call(Aio(o.name), alive, e.dispatched[1])

Nothing == [calls |-> <<>>, dispatched |-> <<>>]

SetLock(name, e) ==
    /\ held' = [held EXCEPT ![name] = e.held]
    /\ last_event' = [last_event EXCEPT ![name] = e.last_event]

\* history of the emits issued while `held` is true, kept until the flag
\* next turns true
HistEmit(name, payload) ==
    IF held[name]
    THEN /\ nHeld' = [nHeld EXCEPT ![name] = @ + 1]
         /\ lastHeld' = [lastHeld EXCEPT ![name] = payload]
    ELSE UNCHANGED <<nHeld, lastHeld>>

HistLock(name, nowHeld) ==
    IF ~held[name] /\ nowHeld
    THEN /\ nHeld' = [nHeld EXCEPT ![name] = 0]
         /\ lastHeld' = [lastHeld EXCEPT ![name] = NoEvent]
    ELSE UNCHANGED <<nHeld, lastHeld>>

\* before bind(name=m): is m already bound to that channel
PreBind(name, m) ==
    [Pre(name, "") EXCEPT
       !.bound = name \in Known /\ \E k \in listeners[name] : iter_methods(k) = m]

---------------------------------------------------------------------------
(* Dispatcher.bind(name=m) *)

NoName == ""

\* the loop of Dispatcher.bind over its keyword arguments, in call order, with
\* __aio_loop__ = loop; it stops at the first name or callback that raises
RECURSIVE bind(_, _, _, _)
bind(ch, known, pairs, loop) ==
    IF pairs = <<>>
    THEN [ch |-> ch, ret |-> "None"]
    ELSE LET name == Head(pairs)[1]
             m    == Head(pairs)[2]
         IN  IF name \notin known
             THEN [ch |-> ch, ret |-> "DoesNotExistError"]
             ELSE IF iscoroutinefunction(m)
             THEN IF loop = NoLoop
                  THEN [ch |-> ch, ret |-> "RuntimeError"]
                  ELSE bind([ch EXCEPT !.aio[name] = Event_add_aio_listener(@, loop, m)],
                            known, Tail(pairs), loop)
             ELSE bind([ch EXCEPT !.sync[name] = Event_add_listener(@, m)],
                       known, Tail(pairs), loop)

Bind(name, m) ==
    /\ alive[OwnerOf(m)]
    /\ LET r == bind(ChanState, Known, <<<<name, m>>>>, NoLoop)
       IN  /\ SetChan(r.ch)
           /\ Observed(Op("bind", name, "", NoVal, m, r.ret, PreBind(name, m)), Nothing)
    /\ UNCHANGED <<events, alive, lockVars, propVars, histVars, classVars, contVars, moreVars>>

(* Dispatcher.bind_async(loop, name=m) *)

BindAsync(l, name, m) ==
    /\ alive[OwnerOf(m)]
    /\ LET r == bind(ChanState, Known, <<<<name, m>>>>, l)
       IN  /\ SetChan(r.ch)
           /\ Observed(Op("bind_async", name, l, NoVal, m, r.ret, PreBind(name, m)), Nothing)
    /\ UNCHANGED <<events, alive, lockVars, propVars, histVars, classVars, contVars, moreVars>>

(* Dispatcher.bind(n1=m1, n2=m2) *)

BindMany(n1, m1, n2, m2) ==
    /\ n1 # n2
    /\ alive[OwnerOf(m1)] /\ alive[OwnerOf(m2)]
    /\ LET r == bind(ChanState, Known, <<<<n1, m1>>, <<n2, m2>>>>, NoLoop)
       IN  /\ SetChan(r.ch)
           /\ Observed(Op("bind_many", n1, n2, NoVal, m1, r.ret, PreBind(n1, m1)), Nothing)
    /\ UNCHANGED <<events, alive, lockVars, propVars, histVars, classVars, contVars, moreVars>>

(* Dispatcher.get_dispatcher_event(name) and Dispatcher.emission_lock(name) *)

\* a variant of the lookup that never raises
get_dispatcher_event_Lenient(name, evts) == "None"

\* the lookup of get_dispatcher_event: "None" when it returns the Event
get_dispatcher_event(name, evts) ==
    IF name \in PropNames \/ name \in evts THEN "None" ELSE "DoesNotExistError"

GetDispatcherEvent(name) ==
    /\ Observed(Op("get_dispatcher_event", name, "", NoVal, NoCallable,
                   get_dispatcher_event(name, events), Pre(name, "")), Nothing)
    /\ UNCHANGED <<chanVars, lockVars, propVars, histVars, classVars, contVars, moreVars>>

EmissionLock(name) ==
    /\ Observed(Op("emission_lock", name, "", NoVal, NoCallable,
                   get_dispatcher_event(name, events), Pre(name, "")), Nothing)
    /\ UNCHANGED <<chanVars, lockVars, propVars, histVars, classVars, contVars, moreVars>>

(* Dispatcher.register_event(n1) and register_event(n1, n2) *)

\* a variant of register_event that does not look for an existing name
register_event_Unchecked(evts, props, names) ==
    [events |-> evts \cup {names[i] : i \in DOMAIN names}, ret |-> "None"]

\* the loop of register_event over its names
RECURSIVE register_event(_, _, _)
register_event(evts, props, names) ==
    IF names = <<>>
    THEN [events |-> evts, ret |-> "None"]
    ELSE IF Head(names) \in evts
    THEN [events |-> evts, ret |-> "EventExistsError"]
    ELSE IF Head(names) \in props
    THEN [events |-> evts, ret |-> "PropertyExistsError"]
    ELSE register_event(evts \cup {Head(names)}, props, Tail(names))

\* Event(name): the new Event objects of the names that were added
NewEvents(f, added, fresh) == [n \in Channels |-> IF n \in added THEN fresh ELSE f[n]]

RegisterEvent(n1, n2) ==
    /\ n1 \in Channels
    /\ LET names == IF n2 = NoName THEN <<n1>> ELSE <<n1, n2>>
           r     == register_event(events, PropNames, names)
           added == r.events \ events
       IN  /\ events' = r.events
           /\ listeners' = NewEvents(listeners, added, {})
           /\ aio_listeners' = NewEvents(aio_listeners, added, {})
           /\ event_loop_map' = NewEvents(event_loop_map, added, {})
           /\ held' = NewEvents(held, added, FALSE)
           /\ last_event' = NewEvents(last_event, added, NoEvent)
           /\ aio_locks' = NewEvents(aio_locks, added, [l \in Loops |-> "absent"])
           /\ Observed(Op("register_event", n1, n2, NoVal, NoCallable, r.ret, Pre(n1, "")),
                       Nothing)
    /\ UNCHANGED <<alive, propVars, histVars, classVars, contVars, moreVars>>

(* pydispatch.register_event(n1) and register_event(n1, n2): the sender is *)
(* the global dispatcher; Dispatcher.register_event, then the hook of the  *)
(* decorators module unless register_event raised                          *)

GlobalRegisterEvent(n1, n2) ==
    /\ n1 \in Channels
    /\ LET names == IF n2 = NoName THEN <<n1>> ELSE <<n1, n2>>
           r     == register_event(events, PropNames, names)
           added == r.events \ events
       IN  /\ events' = r.events
           /\ aio_listeners' = NewEvents(aio_listeners, added, {})
           /\ event_loop_map' = NewEvents(event_loop_map, added, {})
           /\ held' = NewEvents(held, added, FALSE)
           /\ last_event' = NewEvents(last_event, added, NoEvent)
           /\ aio_locks' = NewEvents(aio_locks, added, [l \in Loops |-> "absent"])
           /\ IF r.ret # "None"
              THEN /\ listeners' = NewEvents(listeners, added, {})
                   /\ cache' = cache
              ELSE \E orders \in [CacheNames -> UNION {IterOrders(S) : S \in SUBSET CacheKeys}] :
                     /\ \A n \in CacheNames :
                            orders[n] \in IterOrders(iter_instances(cache[n].data, alive))
                     /\ LET h == post_register_hook(NewEvents(listeners, added, {}),
                                                     cache, names, orders)
                        IN  /\ listeners' = h.sync
                            /\ cache' = h.cache
           /\ Observed(Op("global_register_event", n1, n2, NoVal, NoCallable, r.ret,
                          Pre(n1, "")), Nothing)
    /\ UNCHANGED <<alive, propVars, histVars, classVars, contVars, instVars, waitVars,
                   lateVars>>

(* @receiver(name, cache=flag) applied to the callable m *)

Receiver(name, m, flag) ==
    /\ alive[OwnerOf(m)]
    /\ LET r == bind(ChanState, Known, <<<<name, m>>>>, NoLoop)
       IN  IF r.ret = "DoesNotExistError"
           THEN /\ UNCHANGED <<listeners, aio_listeners, event_loop_map>>
                /\ cache' = IF flag /\ name \notin Known
                            THEN CallbackCache_add(cache, name, m) ELSE cache
                /\ Observed(Op("receiver", name, "", BoolV(flag), m,
                               IF flag THEN "None" ELSE r.ret, PreBind(name, m)), Nothing)
           ELSE /\ SetChan(r.ch)
                /\ cache' = cache
                /\ Observed(Op("receiver", name, "", BoolV(flag), m, r.ret,
                               PreBind(name, m)), Nothing)
    /\ UNCHANGED <<events, alive, lockVars, propVars, histVars, classVars, contVars, instVars,
                   waitVars, lateVars>>

(* @receiver([n1, n2], cache=True) applied to the callable m: one call of  *)
(* bind with both names, which stops at the first name it does not know;   *)
(* the except branch then caches m for every name that is not registered   *)

\* for name in event_names: if not _has_event(name): _CACHED_CALLBACKS.add
RECURSIVE cache_unknown(_, _, _, _)
cache_unknown(c, known, names, m) ==
    IF names = <<>> THEN c
    ELSE cache_unknown(IF Head(names) \notin known
                       THEN CallbackCache_add(c, Head(names), m) ELSE c,
                       known, Tail(names), m)

ReceiverMany(n1, n2, m) ==
    /\ n1 # n2
    /\ alive[OwnerOf(m)]
    /\ LET r == bind(ChanState, Known, <<<<n1, m>>, <<n2, m>>>>, NoLoop)
       IN  /\ SetChan(r.ch)
           /\ cache' = IF r.ret = "DoesNotExistError"
                       THEN cache_unknown(cache, Known, <<n1, n2>>, m) ELSE cache
           /\ Observed(Op("receiver_many", n1, n2, BoolV(TRUE), m,
                          IF r.ret = "DoesNotExistError" THEN "None" ELSE r.ret,
                          PreBind(n1, m)), Nothing)
    /\ UNCHANGED <<events, alive, lockVars, propVars, histVars, classVars, contVars, instVars,
                   waitVars, lateVars>>

(* sender.emit('on_test', a) made by a thread while coroutines on event    *)
(* loops await the event.  Event.__call__ with the emission lock not held: *)
(* the call of self.aio_waiters in three steps -- `with self.lock:`, one   *)
(* waiter.trigger per waiter, then waiters.clear() and the end of the with *)
(* block -- after which the listeners are called                           *)

WaitFrame ==
    UNCHANGED <<chanVars, lockVars, propVars, histVars, classVars, contVars, instVars,
                globVars, lateVars>>

WaitObserved(kind, t, a) ==
    Observed(Op(kind, "on_test", t, a, NoCallable, "None", NoPre), Nothing)

WaitersCall(a) ==
    /\ ~held["on_test"]
    /\ aio_waiters.pc[Emitter] = "idle"
    /\ lock_acquire(aio_waiters.lock)
    /\ aio_waiters' = [aio_waiters EXCEPT !.lock = Emitter, !.pc[Emitter] = "for",
                                          !.todo = aio_waiters.waiters,
                                          !.payload = EventPayload(a)]
    /\ WaitObserved("waiters_call", Emitter, a)
    /\ WaitFrame

WaiterTrigger(w) ==
    /\ aio_waiters.pc[Emitter] = "for"
    /\ w \in aio_waiters.todo
    /\ aio_waiters' = [trigger(aio_waiters, w) EXCEPT !.todo = @ \ {w}]
    /\ WaitObserved("trigger", Emitter, IntV(w))
    /\ WaitFrame

WaitersClear ==
    /\ aio_waiters.pc[Emitter] = "for"
    /\ aio_waiters.todo = {}
    /\ aio_waiters' =
         [aio_waiters EXCEPT
            !.waiters = {},
            !.state = [w \in WaiterIds |->
                         IF w \in aio_waiters.waiters THEN "removed" ELSE @[w]],
            !.by = [w \in WaiterIds |->
                      IF w \in aio_waiters.waiters THEN aio_waiters.payload ELSE @[w]],
            !.lock = IF @ = Emitter THEN "free" ELSE @,
            !.pc[Emitter] = "idle"]
    /\ \E order \in LiveOrders("on_test") :
         Observed(Op("emit", "on_test", Emitter, aio_waiters.payload.a, NoCallable, "None",
                     NoPre),
                  EventCall(Lock("on_test"), aio_waiters.payload, order, NoVal))
    /\ WaitFrame

(* `await event` on event loop l: AioEventWaiters.add_waiter, in three      *)
(* steps -- `async with self.lock:`, AioEventWaiter(loop) and              *)
(* self.waiters.add(waiter), the end of the async with block               *)

\* AioSimpleLock.acquire_async: acquire(blocking=False), and if that fails
\* asyncio.sleep(.01) before the next try
AddWaiterEnter(l) ==
    /\ aio_waiters.pc[l] \in {"idle", "sleep"}
    /\ Cardinality({w \in WaiterIds : aio_waiters.state[w] = "unborn"})
         > Cardinality({t \in Loops \ {l} : aio_waiters.pc[t] # "idle"})
    /\ aio_waiters' = IF lock_acquire(aio_waiters.lock)
                      THEN [aio_waiters EXCEPT !.lock = l, !.pc[l] = "with"]
                      ELSE [aio_waiters EXCEPT !.pc[l] = "sleep"]
    /\ WaitObserved("add_waiter", l, NoVal)
    /\ WaitFrame

AddWaiterAdd(l) ==
    /\ aio_waiters.pc[l] = "with"
    /\ \E w \in WaiterIds :
         /\ aio_waiters.state[w] = "unborn"
         /\ \A v \in WaiterIds : aio_waiters.state[v] = "unborn" => w <= v
         /\ aio_waiters' = [aio_waiters EXCEPT !.waiters = @ \cup {w},
                                               !.state[w] = "waiting",
                                               !.pc[l] = "added"]
         /\ WaitObserved("waiters.add", l, IntV(w))
    /\ WaitFrame

AddWaiterExit(l) ==
    /\ aio_waiters.pc[l] = "added"
    /\ aio_waiters' = [aio_waiters EXCEPT !.lock = IF @ = l THEN "free" ELSE @,
                                          !.pc[l] = "idle"]
    /\ WaitObserved("add_waiter_exit", l, NoVal)
    /\ WaitFrame

(* Dispatcher.emit(name, a) with listeners that bind and unbind on the     *)
(* channel while it is being dispatched.  `script` gives, for each          *)
(* callable, the calls it makes on the sender when it is invoked; `prio` is *)
(* the order in which the set of keys is iterated.                          *)

\* instance.bind(name=t) and instance.unbind(t) made by a listener, on the
\* listeners of the channel
React(d, steps, live) ==
    IF steps = <<>> THEN d
    ELSE LET d1 == IF steps[1].do = "bind"
                   THEN Event_add_listener(d, steps[1].t)
                   ELSE Event_remove_listener(d, steps[1].t, live)
         IN  IF Len(steps) = 1 THEN d1
             ELSE IF steps[2].do = "bind"
             THEN Event_add_listener(d1, steps[2].t)
             ELSE Event_remove_listener(d1, steps[2].t, live)

\* a variant that iterates the container itself, not a copy of its key set
Snapshot_Live(d0, d) == d0 \cup d

\* `for wrkey in set(self.keys())`: the keys are copied when the iteration
\* starts; d0 is the container then, d the container now
Snapshot(d0, d) == d0

\* the next key of the iteration: the first in `prio` not yet visited
Todo(d0, d, prio, visited) == {i \in DOMAIN prio : prio[i] \in Snapshot(d0, d) \ visited}
NextKey(prio, todo) == prio[CHOOSE i \in todo : \A j \in todo : i <= j]

\* the loop of Event.__call__ over iter_methods(): a key whose entry is gone
\* (self.get(wrkey) is None) is passed over, the others' callables are called
RECURSIVE RunReacting(_, _, _, _, _, _, _, _)
Visit(d0, d, prio, script, live, payload, visited, acc, k) ==
    IF k \notin iter_instances(d, live)
    THEN RunReacting(d0, d, prio, script, live, payload, visited \cup {k}, acc)
    ELSE RunReacting(d0, React(d, script[iter_methods(k)], live), prio, script, live,
                     payload, visited \cup {k},
                     Append(acc, [cb |-> iter_methods(k), payload |-> payload,
                                  seen |-> NoVal, did |-> script[iter_methods(k)]]))

RunReacting(d0, d, prio, script, live, payload, visited, acc) ==
    IF Todo(d0, d, prio, visited) = {}
    THEN [listeners |-> d, calls |-> acc]
    ELSE Visit(d0, d, prio, script, live, payload, visited, acc,
               NextKey(prio, Todo(d0, d, prio, visited)))

\* the listeners of the test: the methods on_event of two objects and a
\* function; what one of them may do when called -- a method binds or
\* unbinds another callable, or unbinds its own object and binds another
\* callable; the function does nothing
ReactCallables == {m \in Callables : m.func # "on_stop"}
ReactKeys      == UNION {add_method({}, m) : m \in ReactCallables}
ReactSteps(m)  ==
    IF isfunction(m) THEN {<<>>}
    ELSE {<<>>}
         \cup {<<[do |-> "bind", t |-> x]>> : x \in ReactCallables \ {m}}
         \cup {<<[do |-> "unbind", t |-> x]>> : x \in ReactCallables \ {m}}
         \cup {<<[do |-> "unbind", t |-> [func |-> "", self |-> OwnerOf(m)]],
                 [do |-> "bind", t |-> x]>> : x \in ReactCallables \ {m}}

EmitReacting(name, a) ==
    /\ name \in Known
    /\ ~held[name]
    /\ \A k \in listeners[name] : alive[k[2]]
    /\ \E prio \in IterOrders(ReactKeys) :
       \E script \in [ReactCallables -> UNION {ReactSteps(m) : m \in ReactCallables}] :
         /\ \A m \in ReactCallables : script[m] \in ReactSteps(m)
         /\ LET r == RunReacting(listeners[name], listeners[name], prio, script, alive,
                                 EventPayload(a), {}, <<>>)
            IN  /\ listeners' = [listeners EXCEPT ![name] = r.listeners]
                /\ op' = Op("emit_reacting", name, "", a, NoCallable, "None", Pre(name, ""))
                /\ calls' = r.calls
                /\ dispatched' = <<EventPayload(a)>>
                /\ scheduled' = {}
    /\ UNCHANGED <<events, aio_listeners, event_loop_map, alive, lockVars, propVars,
                   histVars, classVars, contVars, moreVars>>

(* Dispatcher.emit(name, a) *)

Emit(name, a) ==
    IF name \in Known
    THEN /\ held[name] => nHeld[name] < MaxHeldEmits
         /\ \E order \in LiveOrders(name) :
              LET e == EventCall(Lock(name), EventPayload(a), order, SeenOf(name, storage))
              IN  /\ SetLock(name, e)
                  /\ Observed(Op("emit", name, "", a, NoCallable, e.ret, Pre(name, "")), e)
         /\ HistEmit(name, EventPayload(a))
         /\ UNCHANGED <<chanVars, aio_locks, propVars, depth, diedBound, classVars, contVars, moreVars>>
    ELSE /\ Observed(Op("emit", name, "", a, NoCallable, "DoesNotExistError", Pre(name, "")),
                     Nothing)
         /\ UNCHANGED <<chanVars, lockVars, propVars, histVars, classVars, contVars, moreVars>>

(* with sender.emission_lock(name): -- __enter__ and __exit__ *)

Enter(name) ==
    /\ name \in Known
    /\ OpenScopes(name) < MaxScopes
    /\ LET lk == acquire(Lock(name))
       IN  /\ SetLock(name, lk)
           /\ HistLock(name, lk.held)
    /\ depth' = [depth EXCEPT ![name]["sync"] = @ + 1]
    /\ Observed(Op("enter", name, "sync", NoVal, NoCallable, "None", Pre(name, "")), Nothing)
    /\ UNCHANGED <<chanVars, aio_locks, propVars, diedBound, classVars, contVars, moreVars>>

\* __exit__(self, *args) is self.release() whatever the body did; the caller
\* gets what the replay raised, else what the body raised, else nothing
Leave(name, kind, body) ==
    /\ \E order \in LiveOrders(name) :
         LET e == release(Lock(name), order, SeenOf(name, storage))
         IN  /\ SetLock(name, e)
             /\ HistLock(name, e.held)
             /\ Observed(Op(kind, name, "sync", NoVal, NoCallable,
                            IF Raises(e.ret) THEN e.ret ELSE body, Pre(name, "")), e)
    /\ depth' = [depth EXCEPT ![name]["sync"] = @ - 1]
    /\ UNCHANGED <<chanVars, aio_locks, propVars, diedBound, classVars, contVars, moreVars>>

Exit(name) ==
    /\ name \in Known
    /\ depth[name]["sync"] > 0
    /\ Leave(name, "exit", "None")

\* the body of the with statement raised
ExitRaise(name) ==
    /\ name \in Known
    /\ depth[name]["sync"] > 0
    /\ Leave(name, "exit_raise", "BodyError")

(* async with sender.emission_lock(name): on event loop l -- __aenter__ and *)
(* __aexit__, that is acquire_async and release_async                      *)

AEnter(name, l) ==
    /\ name \in Known
    /\ OpenScopes(name) < MaxScopes
    /\ LET lk == acquire(Lock(name))
       IN  /\ SetLock(name, lk)
           /\ HistLock(name, lk.held)
    /\ aio_locks' = [aio_locks EXCEPT ![name][l] = "locked"]
    /\ depth' = [depth EXCEPT ![name][l] = @ + 1]
    /\ Observed(Op("aenter", name, l, NoVal, NoCallable, "None", Pre(name, "")), Nothing)
    /\ UNCHANGED <<chanVars, propVars, diedBound, classVars, contVars, moreVars>>

AExit(name, l) ==
    /\ name \in Known
    /\ depth[name][l] > 0
    /\ depth' = [depth EXCEPT ![name][l] = @ - 1]
    /\ IF build_aio_lock(aio_locks[name][l]) = "locked"
       THEN /\ aio_locks' = [aio_locks EXCEPT ![name][l] = "unlocked"]
            /\ \E order \in LiveOrders(name) :
                 LET e == release(Lock(name), order, SeenOf(name, storage))
                 IN  /\ SetLock(name, e)
                     /\ HistLock(name, e.held)
                     /\ Observed(Op("aexit", name, l, NoVal, NoCallable,
                                    IF Raises(e.ret) THEN e.ret ELSE "None",
                                    Pre(name, "")), e)
       ELSE \* lock.release() of an unlocked asyncio.Lock raises; release() is not reached
            /\ aio_locks' = [aio_locks EXCEPT ![name][l] = build_aio_lock(@)]
            /\ Observed(Op("aexit", name, l, NoVal, NoCallable, "RuntimeError", Pre(name, "")),
                        Nothing)
            /\ UNCHANGED <<held, last_event, nHeld, lastHeld>>
    /\ UNCHANGED <<chanVars, propVars, diedBound, classVars, contVars, moreVars>>

(* sender.<p> = v *)

SetProp(p, v) ==
    /\ p \in PropNames
    /\ \E order \in LiveOrders(p) :
         LET e == Property_set(p, v, storage[p], range_storage[p], Lock(p), order)
             emitted == e.stored # storage[p]
         IN  /\ (held[p] /\ emitted) => nHeld[p] < MaxHeldEmits
             /\ storage' = [storage EXCEPT ![p] = e.stored]
             /\ SetLock(p, e)
             /\ IF emitted
                THEN HistEmit(p, PropPayload(p, e.stored, storage[p]))
                ELSE UNCHANGED <<nHeld, lastHeld>>
             /\ Observed(Op("set", p, "", v, NoCallable, e.ret, Pre(p, "")), e)
    /\ UNCHANGED <<chanVars, aio_locks, range_storage, depth, diedBound, classVars, contVars, moreVars>>

(* prop.set_range(sender, vmin, vmax), prop.set_min(sender, vmin) and      *)
(* prop.set_max(sender, vmax) of a numeric property                        *)

IsNumeric(p) == p \in PropNames /\ PropDecl[p].cls \in NumericClasses

SetRange(p, vmin, vmax) ==
    /\ IsNumeric(p)
    /\ range_storage' = [range_storage EXCEPT ![p] = Range(vmin, vmax)]
    /\ Observed(Op("set_range", p, "", NoVal, NoCallable, "None", Pre(p, "")), Nothing)
    /\ UNCHANGED <<chanVars, lockVars, storage, histVars, classVars, contVars, moreVars>>

SetMin(p, vmin) ==
    /\ IsNumeric(p)
    /\ LET r    == range_storage[p]
           vmax == IF r.set THEN r.max ELSE PropDecl[p].max
       IN  range_storage' = [range_storage EXCEPT ![p] = Range(vmin, vmax)]
    /\ Observed(Op("set_min", p, "", NoVal, NoCallable, "None", Pre(p, "")), Nothing)
    /\ UNCHANGED <<chanVars, lockVars, storage, histVars, classVars, contVars, moreVars>>

SetMax(p, vmax) ==
    /\ IsNumeric(p)
    /\ LET r    == range_storage[p]
           vmin == IF r.set THEN r.min ELSE PropDecl[p].min
       IN  range_storage' = [range_storage EXCEPT ![p] = Range(vmin, vmax)]
    /\ Observed(Op("set_max", p, "", NoVal, NoCallable, "None", Pre(p, "")), Nothing)
    /\ UNCHANGED <<chanVars, lockVars, storage, histVars, classVars, contVars, moreVars>>

(* class c(bases): with the events evs and the properties prs *)

BaseLists(defd) ==
    {<<>>} \cup {<<b>> : b \in defd} \cup {<<a, b>> : a, b \in defd}

DefineClass(c, bases, evs, prs) ==
    /\ ~classes[c].defined
    /\ \A b \in ClassIds : ClassOrder[b] < ClassOrder[c] => classes[b].defined
    /\ \A i, j \in DOMAIN bases : bases[i] = bases[j] => i = j
    /\ \A i \in DOMAIN bases : classes[bases[i]].defined
    /\ "TypeError" \notin {Mro(classes, c, bases)[i] : i \in 1..Len(Mro(classes, c, bases))}
    /\ classes' = [classes EXCEPT ![c] = init_subclass(classes, c, bases, evs, prs)]
    /\ Observed(Op("class", c, "", NoVal, NoCallable, "None", NoPre), Nothing)
    /\ UNCHANGED <<chanVars, lockVars, propVars, instance, histVars, contVars, moreVars>>

(* instance = c() *)

New(c) ==
    /\ classes[c].defined
    /\ instance' = [cls |-> c] @@ init_events(classes[c])
    /\ Observed(Op("new", c, "", NoVal, NoCallable, "None", NoPre), Nothing)
    /\ UNCHANGED <<chanVars, lockVars, propVars, classes, histVars, contVars, moreVars>>

(* instance.register_event(name) *)

InstanceRegisterEvent(name) ==
    /\ instance # NoInstance
    /\ LET r == register_event(instance.events, instance.props, <<name>>)
       IN  /\ instance' = [instance EXCEPT !.events = r.events]
           /\ Observed(Op("register_event", name, NoName, NoVal, NoCallable, r.ret, NoPre),
                       Nothing)
    /\ UNCHANGED <<chanVars, lockVars, propVars, classes, histVars, contVars, moreVars>>

(* Dispatcher.unbind(t): t is a function or bound method, or another object *)

UnbindTargets == Callables \cup {[func |-> "", self |-> o] : o \in {"o1", "o2"}}

\* the loops of Dispatcher.unbind over its property and event channels
unbind(ch, known, t, live) ==
    [sync |-> [n \in Channels |-> IF n \in known
                                  THEN Event_remove_listener(ch.sync[n], t, live)
                                  ELSE ch.sync[n]],
     aio  |-> [n \in Channels |-> IF n \in known
                                  THEN Event_remove_aio_listener(ch.aio[n], t, live)
                                  ELSE ch.aio[n]]]

\* before unbind(t): has a channel an entry for the callable t, or an entry
\* owned by the object t, in either of its containers
PreUnbind(t) ==
    [Pre("", "") EXCEPT
       !.bound = \E n \in Channels : \E k \in listeners[n] \cup aio_listeners[n] :
                    IF IsCallable(t) THEN iter_methods(k) = t ELSE k[2] = t.self]

Unbind(t) ==
    /\ alive[IF IsCallable(t) THEN OwnerOf(t) ELSE t.self]
    /\ SetChan(unbind(ChanState, Known, t, alive))
    /\ Observed(Op("unbind", "", "", NoVal, t, "None", PreUnbind(t)), Nothing)
    /\ UNCHANGED <<events, alive, lockVars, propVars, histVars, classVars, contVars, moreVars>>

(* The last reference to a listener's owner goes away and it is collected *)

Collect(o) ==
    /\ alive[o]
    /\ alive' = [alive EXCEPT ![o] = FALSE]
    /\ listeners' = [n \in Channels |-> WeakRemove(listeners[n], o)]
    /\ aio_listeners' = [n \in Channels |-> WeakRemove(aio_listeners[n], o)]
    /\ event_loop_map' =
         [n \in Channels |-> aio_delitems(Aio(n), WeakRemove(aio_listeners[n], o)).loops]
    /\ diedBound' = IF Pre("", o).bound THEN diedBound \cup {o} ELSE diedBound
    /\ Observed(Op("collect", "", "", NoVal, [func |-> "", self |-> o], "None", Pre("", o)),
                Nothing)
    /\ UNCHANGED <<events, lockVars, propVars, depth, nHeld, lastHeld, classVars, contVars, moreVars>>

---------------------------------------------------------------------------
(* Calls on the containers of test_list and test_dict.  The receiver `i`   *)
(* is the property's container or one reached from it by indexing.         *)

Roots(store) == {store[p].n : p \in ContainerProps}

\* the container a variable of the caller refers to stays alive as well
KeptRoots == {kept} \ {0}

\* the containers the property p holds, down to any depth
Held(p) == Below(heap, {storage[p].n}, MaxObjs)

Reachable(i) == \E p \in ContainerProps : i \in Held(p)

Holder(i) == CHOOSE p \in ContainerProps : i \in Held(p)

IsA(i, kind) == heap[i].kind = kind /\ Reachable(i)

\* Property._on_change for each dispatch of the call, in order:
\* obj.emit(name, obj, value, old=old, property=self)
RECURSIVE EmitEach(_, _, _, _)
EmitEach(lk, emits, order, acc) ==
    IF emits = <<>>
    THEN [held |-> lk.held, last_event |-> lk.last_event,
          calls |-> acc.calls, dispatched |-> acc.dispatched]
    ELSE LET d == Head(emits)
             e == EventCall(lk, PropPayload(d.prop, d.value, d.old), order, d.value)
         IN  EmitEach([held |-> e.held, last_event |-> e.last_event], Tail(emits), order,
                      [calls |-> acc.calls \o e.calls,
                       dispatched |-> acc.dispatched \o e.dispatched])

HistEmits(p, emits) ==
    IF held[p] /\ emits # <<>>
    THEN /\ nHeld' = [nHeld EXCEPT ![p] = @ + Len(emits)]
         /\ lastHeld' = [lastHeld EXCEPT ![p] =
                           LET d == emits[Len(emits)] IN PropPayload(d.prop, d.value, d.old)]
    ELSE UNCHANGED <<nHeld, lastHeld>>

\* the call `kind` on container i has left the heap r.heap and asks for the
\* dispatches r.emits
Dispatches(kind, p, arg, e) ==
    /\ SetLock(p, e)
    /\ Observed(Op(kind, p, "", arg, NoCallable, "None", Pre(p, "")), e)

CallOn(kind, i, p, r) ==
    /\ r.heap[Overflow].kind = "free"
    /\ \A j \in ObjIds : Len(r.heap[j].items) <= MaxLen
    /\ held[p] => nHeld[p] + Len(r.emits) <= MaxHeldEmits
    /\ \E order \in LiveOrders(p) :
         Dispatches(kind, p, NoVal, EmitEach(Lock(p), r.emits, order, Nothing))
    /\ HistEmits(p, r.emits)
    /\ heap' = collect(r.heap, Roots(storage) \cup KeptRoots)
    /\ receiver' = i
    /\ UNCHANGED <<chanVars, aio_locks, propVars, depth, diedBound, classVars,
                   copy_on_change, moreVars>>

ContainerCall(kind, i, r) == CallOn(kind, i, Holder(i), r)

(* sender.test_list = [...] and sender.test_dict = {...} *)

Assigned(p, item, r) ==
    /\ r.heap[Overflow].kind = "free"
    /\ held[p] => nHeld[p] + Len(r.emits) <= MaxHeldEmits
    /\ \E order \in LiveOrders(p) :
         Dispatches("set", p, item, EmitEach(Lock(p), r.emits, order, Nothing))
    /\ HistEmits(p, r.emits)
    /\ storage' = [storage EXCEPT ![p] = r.stored]
    /\ heap' = collect(r.heap, Roots([storage EXCEPT ![p] = r.stored]) \cup KeptRoots)
    /\ receiver' = storage[p].n

SetContainer(p, item) ==
    /\ p \in ContainerProps
    /\ item.t = ContainerDecl[p]
    /\ Assigned(p, item, ContainerProperty_set(heap, p, storage[p], item))
    /\ UNCHANGED <<chanVars, aio_locks, range_storage, depth, diedBound, classVars,
                   copy_on_change, moreVars>>

(* lst[k] = item, lst[a:b] = [...], del lst[k], del lst[a:b] *)

ListSetItem(i, k, item) ==
    /\ IsA(i, "list")
    /\ k \in 0..(Len(heap[i].items) - 1)
    /\ ContainerCall("list.__setitem__", i,
                     IF heap[i].obs THEN ObservableList_setitem(heap, i, k, item)
                     ELSE LET e == plain(heap, item)
                          IN  Plainly(list_setitem(e.heap, i, k, e.val)))

ListSetSlice(i, a, b, item) ==
    /\ IsA(i, "list")
    /\ heap[i].obs
    /\ a <= b
    /\ ContainerCall("list.__setitem__[:]", i,
                     Notify(PutSlice(build_observable(heap, i, item), i, a, b), i,
                            get_copy_or_none(heap, i)))

ListDelItem(i, k) ==
    /\ IsA(i, "list")
    /\ k \in 0..(Len(heap[i].items) - 1)
    /\ ContainerCall("list.__delitem__", i, Finish(Plainly(list_delitem(heap, i, k)), i,
                            get_copy_or_none(heap, i)))

ListDelSlice(i, a, b) ==
    /\ IsA(i, "list")
    /\ a <= b
    /\ ContainerCall("list.__delitem__[:]", i,
                     Finish(Plainly(list_delslice(heap, i, a, b)), i,
                            get_copy_or_none(heap, i)))

(* lst.append(item), lst.extend([...]), sender.test_list += [...],         *)
(* lst.remove(v), lst.clear()                                              *)

ListAppend(i, item) ==
    /\ IsA(i, "list")
    /\ ContainerCall("list.append", i,
                     IF heap[i].obs THEN ObservableList_append(heap, i, item)
                     ELSE LET e == plain(heap, item)
                          IN  Plainly(list_append(e.heap, i, e.val)))

ListExtend(i, item) ==
    /\ IsA(i, "list")
    /\ heap[i].obs
    /\ ContainerCall("list.extend", i,
                     ObservableList_extend(heap, i, ListLiterals[item.n]))

\* += on the property: __iadd__, then the property is assigned the container
\* it already holds, which Property.__set__ finds equal and drops
ListIAdd(p, item) ==
    /\ p \in ContainerProps
    /\ ContainerDecl[p] = "list"
    /\ ContainerCall("list.__iadd__", storage[p].n,
                     ExtendWith(build_observable(heap, storage[p].n, item), storage[p].n))

ListRemove(i, v) ==
    /\ IsA(i, "list")
    /\ list_index(heap, i, v) >= 0
    /\ ContainerCall("list.remove", i,
                     Finish(Plainly(list_delitem(heap, i, list_index(heap, i, v))), i,
                            get_copy_or_none(heap, i)))

ListClear(i) ==
    /\ IsA(i, "list")
    /\ ContainerCall("list.clear", i, Finish(Plainly(list_clear(heap, i)), i,
                            get_copy_or_none(heap, i)))

(* lst.insert(k, item) and lst.pop(k): ObservableList defines neither, so  *)
(* the methods of list run, on an observable list too                      *)

ListInsert(i, k, item) ==
    /\ IsA(i, "list")
    /\ k \in 0..Len(heap[i].items)
    /\ LET e == plain(heap, item)
       IN  ContainerCall("list.insert", i, Plainly(list_insert(e.heap, i, k, e.val)))

ListPop(i, k) ==
    /\ IsA(i, "list")
    /\ k \in 0..(Len(heap[i].items) - 1)
    /\ ContainerCall("list.pop", i, Plainly(list_delitem(heap, i, k)))

(* d[key] = item, del d[key], d.update({...}), d.clear() *)

DictSetItem(i, key, item) ==
    /\ IsA(i, "dict")
    /\ ContainerCall("dict.__setitem__", i,
                     IF heap[i].obs THEN ObservableDict_setitem(heap, i, key, item)
                     ELSE LET e == plain(heap, item)
                          IN  Plainly(dict_setitem(e.heap, i, key, e.val)))

DictDelItem(i, key) ==
    /\ IsA(i, "dict")
    /\ heap[i].map[key] # NoVal
    /\ ContainerCall("dict.__delitem__", i, Finish(Plainly(dict_delitem(heap, i, key)), i,
                            get_copy_or_none(heap, i)))

DictUpdate(i, item) ==
    /\ IsA(i, "dict")
    /\ heap[i].obs
    /\ ContainerCall("dict.update", i,
                     ObservableDict_update(heap, i, DictLiterals[item.n]))

DictClear(i) ==
    /\ IsA(i, "dict")
    /\ ContainerCall("dict.clear", i, Finish(Plainly(dict_clear(heap, i)), i,
                            get_copy_or_none(heap, i)))

(* d.pop(key) with the key in d, d.pop(key, None) with or without it;      *)
(* d.setdefault(key, item), which stores the item as the caller passed it  *)

DictPop(i, key, hasDefault) ==
    /\ IsA(i, "dict")
    /\ hasDefault \/ heap[i].map[key] # NoVal
    /\ ContainerCall("dict.pop", i, Finish(Plainly(dict_delitem(heap, i, key)), i,
                            get_copy_or_none(heap, i)))

DictSetDefault(i, key, item) ==
    /\ IsA(i, "dict")
    /\ LET e == plain(heap, item)
       IN  ContainerCall("dict.setdefault", i,
                         Finish(Plainly(dict_setdefault(e.heap, i, key, e.val)), i,
                            get_copy_or_none(heap, i)))

---------------------------------------------------------------------------
(* Coroutine listeners and the event loops that run them.  An emit submits *)
(* one call per coroutine listener to the loop the listener was bound      *)
(* with; the loop runs the calls submitted to it later, one at a time      *)

\* a variant of the submission that drops the calls the loop has not run yet
submit_coroutine_Replaces(q, cs) == cs

\* AioWeakMethodContainer.submit_coroutine for each call of the sequence cs:
\* asyncio.run_coroutine_threadsafe appends to the loop's queue
submit_coroutine(q, cs) == q \o cs

\* AioWeakMethodContainer.__call__: coro = m(*args, **kwargs) for the keys in
\* the order of iteration; those of loop l
AioCalls(c, order, l, payload) ==
    LET OnLoop(wrkey) == LoopOf(c, wrkey) = l
        mine == SelectSeq(order, OnLoop)
    IN  [k \in 1..Len(mine) |-> [cb |-> iter_methods(mine[k]), payload |-> payload]]

\* sender.emit(name, a): Event.__call__ submits the coroutine listeners and
\* then calls the others
EmitAio(name, a) ==
    /\ name \in events
    /\ held[name] => nHeld[name] < MaxHeldEmits
    /\ \E order \in LiveOrders(name) :
         LET e == EventCall(Lock(name), EventPayload(a), order, SeenOf(name, storage))
         IN  /\ SetLock(name, e)
             /\ Observed(Op("emit_aio", name, "", a, NoCallable, e.ret, Pre(name, "")), e)
    /\ HistEmit(name, EventPayload(a))
    /\ IF held[name]
       THEN loop_queue' = loop_queue
       ELSE \E order \in IterOrders(iter_instances(aio_listeners[name], alive)) :
              loop_queue' = [l \in Loops |->
                               submit_coroutine(loop_queue[l],
                                                AioCalls(Aio(name), order, l,
                                                         EventPayload(a)))]
    /\ Len(loop_queue'["loop1"]) + Len(loop_queue'["loop2"]) <= MaxQueue
    /\ UNCHANGED <<chanVars, aio_locks, propVars, depth, diedBound, classVars, contVars,
                   instVars, globVars, waitVars, kept, emitting>>

\* the event loop l runs the first call waiting on it: `await _coro`
LoopRun(l) ==
    /\ loop_queue[l] # <<>>
    /\ loop_queue' = [loop_queue EXCEPT ![l] = Tail(@)]
    /\ Observed(Op("loop_run", "on_test", l, Head(loop_queue[l]).payload.a,
                   Head(loop_queue[l]).cb, "None", Pre("on_test", "")),
                [calls |-> <<[cb |-> Head(loop_queue[l]).cb,
                              payload |-> Head(loop_queue[l]).payload, seen |-> NoVal]>>,
                 dispatched |-> <<>>])
    /\ UNCHANGED <<chanVars, lockVars, propVars, histVars, classVars, contVars, instVars,
                   globVars, waitVars, kept, emitting>>

NextAio ==
    \/ \E l \in Loops : \E m \in Coroutines : BindAsync(l, "on_test", m)
    \/ Bind("on_test", [func |-> "on_event", self |-> "o1"])
    \/ \E m \in Coroutines : Unbind(m)
    \/ \E a \in EmitArgs : EmitAio("on_test", a)
    \/ \E l \in Loops : LoopRun(l)

SpecAio == Init /\ [][NextAio]_vars

---------------------------------------------------------------------------
(* sender.emit('on_test', a) in the thread of one event loop while the     *)
(* thread of the other acquires and releases the lock.  Event.__call__     *)
(* first reads emission_lock.held and then, in a second step, writes       *)
(* emission_lock.last_event; the other thread can run in between           *)

\* `if self.emission_lock.held:` -- not held: the listeners are called
EmitTest(l, a) ==
    /\ emitting[l] = NoEvent
    /\ IF held["on_test"]
       THEN /\ emitting' = [emitting EXCEPT ![l] = EventPayload(a)]
            /\ Observed(Op("emit_test", "on_test", l, a, NoCallable, "None",
                           Pre("on_test", "")), Nothing)
       ELSE /\ emitting' = emitting
            /\ \E order \in LiveOrders("on_test") :
                 LET e == EventCall(Lock("on_test"), EventPayload(a), order,
                                    SeenOf("on_test", storage))
                 IN  Observed(Op("emit_test", "on_test", l, a, NoCallable, e.ret,
                                 Pre("on_test", "")), e)
    /\ UNCHANGED <<chanVars, lockVars, propVars, histVars, classVars, contVars, instVars,
                   globVars, waitVars, kept, loop_queue>>

\* `self.emission_lock.last_event = (args, kwargs)` and return
EmitRecord(l) ==
    /\ emitting[l] # NoEvent
    /\ last_event' = [last_event EXCEPT !["on_test"] = emitting[l]]
    /\ emitting' = [emitting EXCEPT ![l] = NoEvent]
    /\ Observed(Op("emit_record", "on_test", l, emitting[l].a, NoCallable, "None",
                   Pre("on_test", "")), Nothing)
    /\ UNCHANGED <<chanVars, held, aio_locks, propVars, histVars, classVars, contVars,
                   instVars, globVars, waitVars, kept, loop_queue>>

\* `async with sender.emission_lock('on_test'):` in the thread of loop l; a
\* thread that is inside Event.__call__ does nothing else
RaceEnter(l) ==
    /\ emitting[l] = NoEvent
    /\ AEnter("on_test", l)

RaceExit(l) ==
    /\ emitting[l] = NoEvent
    /\ AExit("on_test", l)

NextRace ==
    \/ Bind("on_test", [func |-> "on_event", self |-> "o1"])
    \/ \E l \in Loops : \E a \in EmitArgs : EmitTest(l, a)
    \/ \E l \in Loops : EmitRecord(l)
    \/ \E l \in Loops : RaceEnter(l)
    \/ \E l \in Loops : RaceExit(l)

SpecRace == Init /\ [][NextRace]_vars

---------------------------------------------------------------------------
(* Listeners that emit or assign from inside their callback.  The method   *)
(* on_event of o1 is given the body                                        *)
(*     if value == 0: sender.emit(name, 1)      when bound to an event     *)
(*     if value == 0: sender.test_prop = 1      when bound to test_prop    *)
(* so that Event.__call__ and Property.__set__ are entered again while the *)
(* loop over the listeners of the first call is still running              *)

Reactor == [func |-> "on_event", self |-> "o1"]
Trigger == IntV(0)
Reply   == IntV(1)

NestedCallables == {m \in Callables : m.func = "on_event"}

\* the lock, the stored value and what has been observed so far
NestedStart(name) ==
    [held |-> held[name], last_event |-> last_event[name],
     stored |-> SeenOf(name, storage), calls |-> <<>>, dispatched |-> <<>>]

RECURSIVE NestedCall(_, _, _)
RECURSIVE NestedRun(_, _, _, _)
RECURSIVE Reaction(_, _, _, _)
RECURSIVE NestedSet(_, _, _, _)

\* Event.__call__(*args, **kwargs)
NestedCall(st, payload, order) ==
    IF st.held
    THEN [st EXCEPT !.last_event = payload]
    ELSE NestedRun([st EXCEPT !.dispatched = Append(@, payload)], payload, order, order)

\* for m in self.listeners.iter_methods(): r = m(*args, **kwargs)
NestedRun(st, payload, todo, order) ==
    IF todo = <<>> THEN st
    ELSE NestedRun(Reaction([st EXCEPT !.calls =
                                Append(@, [cb |-> iter_methods(Head(todo)),
                                           payload |-> payload, seen |-> st.stored])],
                            iter_methods(Head(todo)), payload, order),
                   payload, Tail(todo), order)

\* the body of the listener m
Reaction(st, m, payload, order) ==
    IF m # Reactor \/ payload.a # Trigger THEN st
    ELSE IF payload.prop = "" THEN NestedCall(st, EventPayload(Reply), order)
    ELSE NestedSet(st, payload.prop, Reply, order)

\* Property.__set__(obj, value) of the untyped property p
NestedSet(st, p, v, order) ==
    IF SameValue(st.stored, v) THEN st
    ELSE NestedCall([st EXCEPT !.stored = v], PropPayload(p, v, st.stored), order)

\* a variant of release that resets held only after the replay
NestedRelease_HeldDuringReplay(st, order) ==
    IF ~st.held THEN st
    ELSE IF st.last_event # NoEvent
    THEN [NestedRun([st EXCEPT !.last_event = NoEvent,
                               !.dispatched = Append(@, st.last_event)],
                    st.last_event, order, order) EXCEPT !.held = FALSE]
    ELSE st

\* EmissionHoldLock.release()
NestedRelease(st, order) ==
    IF ~st.held THEN st
    ELSE IF st.last_event # NoEvent
    THEN NestedCall([st EXCEPT !.held = FALSE, !.last_event = NoEvent],
                    st.last_event, order)
    ELSE st

NestedDone(kind, name, arg, st) ==
    /\ SetLock(name, st)
    /\ storage' = IF name \in PropNames THEN [storage EXCEPT ![name] = st.stored]
                  ELSE storage
    /\ Observed(Op(kind, name, "", arg, NoCallable, "None", Pre(name, "")), st)

\* sender.emit(name, a)
EmitNested(name, a) ==
    /\ name \in events
    /\ \E order \in LiveOrders(name) :
         NestedDone("emit_nested", name, a,
                    NestedCall(NestedStart(name), EventPayload(a), order))
    /\ UNCHANGED <<chanVars, aio_locks, range_storage, histVars, classVars, contVars,
                   moreVars>>

\* sender.test_prop = v
SetNested(p, v) ==
    /\ p \in PropNames
    /\ PropDecl[p].cls = "Property"
    /\ \E order \in LiveOrders(p) :
         NestedDone("set_nested", p, v, NestedSet(NestedStart(p), p, v, order))
    /\ UNCHANGED <<chanVars, aio_locks, range_storage, histVars, classVars, contVars,
                   moreVars>>

\* the end of `with sender.emission_lock(name):`
ExitNested(name) ==
    /\ name \in Known
    /\ depth[name]["sync"] > 0
    /\ depth' = [depth EXCEPT ![name]["sync"] = @ - 1]
    /\ \E order \in LiveOrders(name) :
         NestedDone("exit_nested", name, NoVal, NestedRelease(NestedStart(name), order))
    /\ UNCHANGED <<chanVars, aio_locks, range_storage, nHeld, lastHeld, diedBound,
                   classVars, contVars, moreVars>>

---------------------------------------------------------------------------
(* A container the caller keeps in a variable of its own while the         *)
(* property is assigned another container or the container is removed from *)
(* its parent, and is then changed through that variable                   *)

\* ref = sender.test_list, ref = sender.test_dict['a'], ...
KeepRef(i) ==
    /\ i \in ObjIds
    /\ Reachable(i)
    /\ heap[i].obs
    /\ kept' = i
    /\ Observed(Op("keep", Holder(i), "", Ref(i), NoCallable, "None", Pre(Holder(i), "")),
                Nothing)
    /\ UNCHANGED <<chanVars, lockVars, propVars, histVars, classVars, contVars, instVars,
                   globVars, waitVars, emitting, loop_queue>>

\* the container whose _emit_change reaches the property: the end of the
\* chain of parent_observable
RECURSIVE Top(_, _)
Top(h, i) == IF h[i].parent = NoParent THEN i ELSE Top(h, h[i].parent)

\* ref.append(item) on a list the property does not hold any more
DetachedAppend(item) ==
    /\ kept # 0
    /\ heap[kept].kind = "list"
    /\ ~Reachable(kept)
    /\ CallOn("list.append", kept, heap[Top(heap, kept)].property,
              ObservableList_append(heap, kept, item))

\* ref[key] = item on a dict the property does not hold any more
DetachedSetItem(key, item) ==
    /\ kept # 0
    /\ heap[kept].kind = "dict"
    /\ ~Reachable(kept)
    /\ CallOn("dict.__setitem__", kept, heap[Top(heap, kept)].property,
              ObservableDict_setitem(heap, kept, key, item))

\* [], [0], [[0]] and {}, {'a': 0}, {'a': {}}
DetachLists == {ListLit(1), ListLit(2), ListLit(4)}
DetachDicts == {DictLit(1), DictLit(2), DictLit(4)}

NextDetach ==
    \/ \E p \in ContainerProps : \E item \in DetachLists \cup DetachDicts :
          SetContainer(p, item)
    \/ \E i \in ObjIds : ListDelItem(i, 0)
    \/ \E i \in ObjIds : DictDelItem(i, "a")
    \/ \E i \in ObjIds : KeepRef(i)
    \/ \E item \in ContScalars : DetachedAppend(item)
    \/ \E item \in ContScalars : DetachedSetItem("b", item)

SpecDetach == Init /\ [][NextDetach]_vars

---------------------------------------------------------------------------
(* Instances a and b of the class: construction, reads and assignments of  *)
(* the container properties, a.test_list.append(item), set_range and the   *)
(* death of an instance                                                    *)

\* what keeps a list or dict object alive: the class's defaults and the
\* storage entries of the instances
InstRoots(os) ==
    {DefaultCell[p] : p \in ContainerProps}
    \cup {os[a].store[p].n : a \in {b \in InstIds : os[b].state = "alive"},
                             p \in ContainerProps}

\* the caller sees the call's record and the payloads dispatched on the
\* instance's channel
InstObserved(kind, p, a, arg, emits) ==
    /\ op' = Op(kind, p, a, arg, NoCallable, "None", NoPre)
    /\ calls' = <<>>
    /\ dispatched' = [k \in 1..Len(emits) |->
                        PropPayload(emits[k].prop, emits[k].value, emits[k].old)]
    /\ scheduled' = {}

InstFrame ==
    UNCHANGED <<chanVars, lockVars, propVars, classVars, histVars, copy_on_change, globVars,
                waitVars, lateVars>>

(* a = A(): Dispatcher.__new__ and __init_events *)

NewInst(a) ==
    /\ objs[a].state # "alive"
    /\ objs' = [objs EXCEPT ![a] = [add_instances(NoInst, InstProps) EXCEPT !.state = "alive"]]
    /\ InstObserved("new", "", a, NoVal, <<>>)
    /\ UNCHANGED <<heap, receiver>>
    /\ InstFrame

(* a.test_list / a.test_dict, read *)

GetInst(a, p) ==
    /\ objs[a].state = "alive"
    /\ p \in ContainerProps
    /\ LET g == ContainerProperty_get(heap, p, objs[a].store[p])
       IN  /\ g.heap[Overflow].kind = "free"
           /\ objs' = [objs EXCEPT ![a].store[p] = g.val]
           /\ heap' = collect(g.heap, InstRoots([objs EXCEPT ![a].store[p] = g.val]))
           /\ receiver' = g.val.n
    /\ InstObserved("get", p, a, NoVal, <<>>)
    /\ InstFrame

(* a.test_list = [...] / a.test_dict = {...}; `meddle` says whether the    *)
(* listener bound to the property appends 1 to the `old` it is handed when *)
(* that is a plain list                                                    *)

Meddled(h, emits, meddle) ==
    IF meddle THEN list_append(h, emits[1].old.n, IntV(1)) ELSE h

SetInst(a, p, item, meddle) ==
    /\ objs[a].state = "alive"
    /\ p \in ContainerProps
    /\ item.t = ContainerDecl[p]
    /\ LET r == ContainerProperty_set(heap, p, objs[a].store[p], item)
       IN  /\ r.heap[Overflow].kind = "free"
           /\ meddle => /\ r.emits # <<>>
                         /\ r.heap[r.emits[1].old.n].kind = "list"
                         /\ ~r.heap[r.emits[1].old.n].obs
                         /\ Len(r.heap[r.emits[1].old.n].items) < MaxLen
           /\ objs' = [objs EXCEPT ![a].store[p] = r.stored]
           /\ heap' = collect(Meddled(r.heap, r.emits, meddle),
                              InstRoots([objs EXCEPT ![a].store[p] = r.stored]))
           /\ receiver' = objs[a].store[p].n
           /\ InstObserved("set", p, a, item, r.emits)
    /\ InstFrame

(* a.test_list.append(item): the read, then ObservableList.append *)

AppendInst(a, item) ==
    /\ objs[a].state = "alive"
    /\ LET g == ContainerProperty_get(heap, "test_list", objs[a].store["test_list"])
       IN  /\ g.heap[Overflow].kind = "free"
           /\ LET r == ObservableList_append(g.heap, g.val.n, item)
              IN  /\ r.heap[Overflow].kind = "free"
                  /\ \A j \in ObjIds : Len(r.heap[j].items) <= MaxLen
                  /\ objs' = [objs EXCEPT ![a].store["test_list"] = g.val]
                  /\ heap' = collect(r.heap,
                                     InstRoots([objs EXCEPT ![a].store["test_list"] = g.val]))
                  /\ receiver' = g.val.n
                  /\ InstObserved("list.append", "test_list", a, NoVal, r.emits)
    /\ InstFrame

(* A.x.set_range(a, vmin, vmax) *)

SetRangeInst(a, vmin, vmax) ==
    /\ objs[a].state = "alive"
    /\ objs' = [objs EXCEPT ![a].range = Range(vmin, vmax)]
    /\ InstObserved("set_range", "x", a, NoVal, <<>>)
    /\ UNCHANGED <<heap, receiver>>
    /\ InstFrame

(* del a, with no other reference to the instance left.  An observable     *)
(* container a property stores for the instance refers to it (obj=obj), so *)
(* an instance with such an entry stays alive.                             *)

DestroyInst(a) ==
    /\ objs[a].state = "alive"
    /\ \A p \in ContainerProps : ~heap[objs[a].store[p].n].obs
    /\ objs' = [objs EXCEPT ![a] = [finalize(objs[a], objs[a].weakrefs)
                                      EXCEPT !.state = "dead"]]
    /\ heap' = collect(heap, InstRoots([objs EXCEPT ![a].state = "dead"]))
    /\ receiver' = receiver
    /\ InstObserved("del", "", a, NoVal, <<>>)
    /\ InstFrame

---------------------------------------------------------------------------
(* The emission lock of the event on_test, with listeners that return None *)
(* and False                                                               *)

LockCallables == {m \in Callables : m.self = "o1"}

NextLock ==
    \/ \E m \in LockCallables : Bind("on_test", m)
    \/ \E a \in EmitArgs : Emit("on_test", a)
    \/ Enter("on_test")
    \/ Exit("on_test")
    \/ \E l \in Loops : AEnter("on_test", l)
    \/ \E l \in Loops : AExit("on_test", l)

SpecLock == Init /\ [][NextLock]_vars


---------------------------------------------------------------------------
(* Binding, unbinding and collecting listeners of the event on_test, and   *)
(* emitting it; bind and emit are also tried with a name that is not       *)
(* registered                                                              *)

BindNames == {"on_test", UnknownName}

NextBind ==
    \/ \E n \in BindNames : \E m \in Callables : Bind(n, m)
    \/ \E t \in UnbindTargets : Unbind(t)
    \/ \E o \in Objects : Collect(o)
    \/ \E n \in BindNames : \E a \in EmitArgs : Emit(n, a)

SpecBind == Init /\ [][NextBind]_vars

---------------------------------------------------------------------------
(* Assignments to the untyped property test_prop, with listeners bound to  *)
(* it and its emission lock taken and released                             *)

PropCallables == {m \in Callables : m.self = "o1"}
PlainValues   == {PyNone, IntV(0), IntV(1), FloatV(1), StrV(0)}

NextProp ==
    \/ \E m \in PropCallables : Bind("test_prop", m)
    \/ \E v \in PlainValues : SetProp("test_prop", v)
    \/ Enter("test_prop")
    \/ Exit("test_prop")

SpecProp == Init /\ [][NextProp]_vars

---------------------------------------------------------------------------
(* Assignments to the typed properties bar and x, with a listener on each, *)
(* and changes of the range of x for this instance                         *)

TypedProps     == {"bar", "x"}
TypedCallables == {m \in Callables : m.self = "o2"}
RangeArgs      == {PyNone, IntV(0), IntV(MaxInt)}

NextTyped ==
    \/ \E p \in TypedProps : \E m \in TypedCallables : Bind(p, m)
    \/ \E p \in TypedProps : \E v \in Values : SetProp(p, v)
    \/ \E vmin, vmax \in RangeArgs : SetRange("x", vmin, vmax)
    \/ \E vmin \in RangeArgs : SetMin("x", vmin)
    \/ \E vmax \in RangeArgs : SetMax("x", vmax)

SpecTyped == Init /\ [][NextTyped]_vars

---------------------------------------------------------------------------
(* Binding plain and coroutine callbacks of two objects and a function to  *)
(* the event on_test and the property test_prop, unbinding callbacks and   *)
(* whole objects, emitting the event and assigning the property            *)

Method(o, f) == [func |-> f, self |-> o]

UnbindBinds ==
    { <<"on_test", Method("o1", "on_event")>>, <<"on_test", Method("o2", "on_event")>>,
      <<"test_prop", Method("o1", "on_event")>>, <<"test_prop", Method("o1", "on_stop")>>,
      <<"test_prop", Method(NoSelf, "f1")>> }

UnbindAsyncBinds ==
    { <<"on_test", Method("o2", "on_coro")>>, <<"test_prop", Method("o1", "on_coro")>> }

UnbindArgs ==
    {b[2] : b \in UnbindBinds \cup UnbindAsyncBinds}
        \cup {[func |-> "", self |-> o] : o \in {"o1", "o2"}}

NextUnbind ==
    \/ \E b \in UnbindBinds : Bind(b[1], b[2])
    \/ \E b \in UnbindAsyncBinds : BindAsync("loop1", b[1], b[2])
    \/ \E t \in UnbindArgs : Unbind(t)
    \/ Emit("on_test", IntV(0))
    \/ \E v \in {IntV(0), IntV(1)} : SetProp("test_prop", v)

SpecUnbind == Init /\ [][NextUnbind]_vars

---------------------------------------------------------------------------
(* The registry: registering events after construction, and bind, emit and *)
(* the lookups with names that are registered, not yet registered, or      *)
(* never registered; on_test has listeners and its lock is taken and       *)
(* released                                                                *)

RegistryNames == {"on_test", "test_prop", "on_new", UnknownName}
RegisterNames == {"on_test", "test_prop", "on_new"}
BindManyNames == {"on_test", "on_new", UnknownName}

NextRegistry ==
    \/ \E n \in {"on_test", "on_new"} : Bind(n, Method("o1", "on_event"))
    \/ \E n1, n2 \in BindManyNames :
          BindMany(n1, Method("o1", "on_event"), n2, Method("o2", "on_event"))
    \/ \E n \in RegistryNames : GetDispatcherEvent(n)
    \/ \E n \in RegistryNames : EmissionLock(n)
    \/ \E n \in RegistryNames : Emit(n, IntV(0))
    \/ \E n1 \in RegisterNames : \E n2 \in {NoName, "on_test", "on_new"} : RegisterEvent(n1, n2)
    \/ Enter("on_test")
    \/ Exit("on_test")

SpecRegistry == Init /\ [][NextRegistry]_vars

---------------------------------------------------------------------------
(* Class statements for A, B and C in any inheritance shape, each          *)
(* declaring nothing, one event, one property, or x as both; instances of  *)
(* them, and register_event on an instance                                 *)

Declarations ==
    { <<{}, {}>>, <<{"x"}, {}>>, <<{"y"}, {}>>, <<{}, {"x"}>>, <<{"x"}, {"x"}>> }

NextClass ==
    \/ \E c \in ClassIds : \E bases \in BaseLists(ClassIds) : \E d \in Declarations :
          DefineClass(c, bases, d[1], d[2])
    \/ \E c \in ClassIds : New(c)
    \/ \E n \in DeclNames : InstanceRegisterEvent(n)

SpecClass == Init /\ [][NextClass]_vars

---------------------------------------------------------------------------
(* The containers of test_list and test_dict: assignment of a literal and  *)
(* every list and dict method, on the property's container and on the      *)
(* containers nested in it                                                 *)

Indexes == 0..(MaxLen - 1)
\* [0:1], [1:] and [:]
Slices  == {<<0, 1>>, <<1, MaxLen>>, <<0, MaxLen>>}

\* [], [0], [0, 1] and {}, {'a': 0}, {'a': 1, 'b': 0}
FlatLists == {ListLit(1), ListLit(2), ListLit(3)}
FlatDicts == {DictLit(1), DictLit(2), DictLit(3)}

NextCont ==
    \/ \E p \in ContainerProps : \E item \in FlatLists \cup FlatDicts : SetContainer(p, item)
    \/ \E i \in ObjIds : \E k \in Indexes : \E item \in ContScalars : ListSetItem(i, k, item)
    \/ \E i \in ObjIds : \E sl \in Slices : \E item \in FlatLists :
          ListSetSlice(i, sl[1], sl[2], item)
    \/ \E i \in ObjIds : \E k \in Indexes : ListDelItem(i, k)
    \/ \E i \in ObjIds : \E sl \in Slices : ListDelSlice(i, sl[1], sl[2])
    \/ \E i \in ObjIds : \E item \in ContScalars : ListAppend(i, item)
    \/ \E i \in ObjIds : \E item \in FlatLists : ListExtend(i, item)
    \/ \E p \in ContainerProps : \E item \in FlatLists : ListIAdd(p, item)
    \/ \E i \in ObjIds : \E v \in ContScalars : ListRemove(i, v)
    \/ \E i \in ObjIds : ListClear(i)
    \/ \E i \in ObjIds : \E k \in 0..MaxLen : \E item \in ContScalars : ListInsert(i, k, item)
    \/ \E i \in ObjIds : \E k \in Indexes : ListPop(i, k)
    \/ \E i \in ObjIds : \E key \in DictKeys : \E item \in ContScalars :
          DictSetItem(i, key, item)
    \/ \E i \in ObjIds : \E key \in DictKeys : DictDelItem(i, key)
    \/ \E i \in ObjIds : \E item \in FlatDicts : DictUpdate(i, item)
    \/ \E i \in ObjIds : DictClear(i)
    \/ \E i \in ObjIds : \E key \in DictKeys : \E d \in BOOLEAN : DictPop(i, key, d)
    \/ \E i \in ObjIds : \E key \in DictKeys : \E item \in ContScalars :
          DictSetDefault(i, key, item)

SpecCont == Init /\ [][NextCont]_vars

---------------------------------------------------------------------------
(* Containers inside containers: lists and dicts are put into the          *)
(* containers of the two properties and into each other, and are then      *)
(* changed themselves                                                      *)

\* 0, [], {}
NestedItems == {IntV(0), ListLit(1), DictLit(1)}

NextNested ==
    \/ \E i \in ObjIds : \E item \in NestedItems : DictSetItem(i, "a", item)
    \/ \E i \in ObjIds : DictDelItem(i, "a")
    \/ \E i \in ObjIds : DictSetDefault(i, "b", DictLit(1))
    \/ \E i \in ObjIds : DictUpdate(i, DictLit(4))
    \/ \E i \in ObjIds : \E item \in NestedItems : ListAppend(i, item)
    \/ \E i \in ObjIds : ListSetSlice(i, 0, MaxLen, ListLit(4))
    \/ \E i \in ObjIds : ListInsert(i, 0, IntV(0))
    \/ \E i \in ObjIds : ListPop(i, 0)
    \/ \E i \in ObjIds : ListClear(i)

SpecNested == Init /\ [][NextNested]_vars

(* The same calls on properties declared with or without copy_on_change=True *)

InitCopy == \E coc \in BOOLEAN : Start(ReadHeap, coc)

SpecCopy == InitCopy /\ [][NextNested]_vars

---------------------------------------------------------------------------
(* The event on_test and the property test_prop of one sender, with a      *)
(* listener that returns None and one that raises                          *)

ScopeNames     == {"on_test", "test_prop"}
ScopeValues    == {IntV(0), IntV(1)}
RaiseCallables == {[func |-> "on_event", self |-> "o1"]} \cup Raisers

NextRaise ==
    \/ \E n \in ScopeNames : \E m \in RaiseCallables : Bind(n, m)
    \/ \E a \in ScopeValues : Emit("on_test", a)
    \/ \E v \in ScopeValues : SetProp("test_prop", v)
    \/ Enter("on_test")
    \/ Exit("on_test")

SpecRaise == Init /\ [][NextRaise]_vars

---------------------------------------------------------------------------
(* The emission locks of on_test and test_prop, each channel with at most  *)
(* one listener; with-scopes that end normally or because their body       *)
(* raised                                                                  *)

NextScope ==
    \/ \E n \in ScopeNames : Bind(n, [func |-> "on_event", self |-> "o1"])
    \/ \E a \in ScopeValues : Emit("on_test", a)
    \/ \E v \in ScopeValues : SetProp("test_prop", v)
    \/ \E n \in ScopeNames : Enter(n)
    \/ \E n \in ScopeNames : Exit(n)
    \/ \E n \in ScopeNames : ExitRaise(n)

SpecScope == Init /\ [][NextScope]_vars

---------------------------------------------------------------------------
(* Listeners that emit on_test or assign test_prop from their callback,    *)
(* with scopes of the two locks opened and left                            *)

NextNest ==
    \/ \E name \in ScopeNames : \E m \in NestedCallables : Bind(name, m)
    \/ \E a \in EmitArgs : EmitNested("on_test", a)
    \/ \E v \in ScopeValues : SetNested("test_prop", v)
    \/ \E name \in ScopeNames : Enter(name)
    \/ \E name \in ScopeNames : ExitNested(name)

SpecNest == Init /\ [][NextNest]_vars

---------------------------------------------------------------------------
(* The global dispatcher: @receiver with and without cache=True for a name *)
(* that is registered (on_test) and one that is not yet (on_new),          *)
(* pydispatch.register_event and pydispatch.emit                           *)

GlobalNames == {"on_test", "on_new"}

NextGlobal ==
    \/ \E n \in GlobalNames : \E m \in CacheCallables : \E flag \in BOOLEAN :
          Receiver(n, m, flag)
    \/ \E n1 \in GlobalNames : \E n2 \in GlobalNames \cup {NoName} :
          GlobalRegisterEvent(n1, n2)
    \/ \E n \in GlobalNames : \E a \in EmitArgs : Emit(n, a)

SpecGlobal == Init /\ [][NextGlobal]_vars

---------------------------------------------------------------------------
(* The global dispatcher: @receiver with a list of two names, one of them  *)
(* registered and the other not yet, in both orders                        *)

NextReceive ==
    \/ \E n1, n2 \in GlobalNames : \E m \in CacheCallables : ReceiverMany(n1, n2, m)
    \/ \E n \in GlobalNames : GlobalRegisterEvent(n, NoName)
    \/ \E n \in GlobalNames : \E a \in EmitArgs : Emit(n, a)

SpecReceive == Init /\ [][NextReceive]_vars

---------------------------------------------------------------------------
(* Listeners of on_test that bind and unbind while on_test is dispatched *)

NextReact ==
    \/ \E m \in ReactCallables : Bind("on_test", m)
    \/ EmitReacting("on_test", IntV(0))

SpecReact == Init /\ [][NextReact]_vars

---------------------------------------------------------------------------
(* One thread emits on_test while coroutines on two event loops await it *)

NextWait ==
    \/ \E a \in EmitArgs : WaitersCall(a)
    \/ \E w \in WaiterIds : WaiterTrigger(w)
    \/ WaitersClear
    \/ \E l \in Loops : AddWaiterEnter(l)
    \/ \E l \in Loops : AddWaiterAdd(l)
    \/ \E l \in Loops : AddWaiterExit(l)

SpecWait == Init /\ [][NextWait]_vars

---------------------------------------------------------------------------
(* Properties of the emission lock, checked under SpecLock *)

ReleaseKinds == {"exit", "aexit"}

AllCarry(payload) == \A i \in DOMAIN calls : calls[i].payload = payload

\* C1: while the lock's `held` flag is set, emit invokes no listener and
\* dispatches nothing; a release that finds the flag set after N >= 1 emits
\* were issued under it makes exactly one dispatch, and that dispatch (and
\* every listener call in it) carries the payload of the last of those emits.
C1_Coalescing ==
    /\ (op.kind = "emit" /\ op.name = "on_test" /\ op.pre.held)
         => (calls = <<>> /\ dispatched = <<>>)
    /\ (op.kind \in ReleaseKinds /\ op.result = "None" /\ op.pre.held
          /\ nHeld["on_test"] >= 1)
         => (dispatched = <<lastHeld["on_test"]>> /\ AllCarry(lastHeld["on_test"]))

\* C1 witness: a release after two held emits, the first of 0 and the last of
\* 1, has called a listener once with 1
C1_Witness ==
    /\ op.kind = "exit"
    /\ op.pre.held
    /\ nHeld["on_test"] = 2
    /\ dispatched = <<EventPayload(IntV(1))>>
    /\ Len(calls) = 1
    /\ calls[1].payload.a = IntV(1)

\* C2: a nested scope on the same lock is a no-op: leaving the inner scope
\* dispatches nothing and leaves the lock held, and an emit issued while the
\* outer scope is still open is deferred.  (Only with-scopes of the sync
\* interface are considered: no event loop has touched the lock.)
C2_NestedScopeIsNoOp ==
    (\A l \in Loops : aio_locks["on_test"][l] = "absent")
      => /\ (op.kind = "exit" /\ depth["on_test"]["sync"] >= 1)
              => (dispatched = <<>> /\ held["on_test"])
         /\ (op.kind = "emit" /\ op.name = "on_test" /\ depth["on_test"]["sync"] >= 1)
              => dispatched = <<>>

\* C3: once the outermost scope has been left the lock is not held, whether or
\* not an emission was recorded; an emit with no scope open is dispatched at
\* once with its own payload.
C3_NotHeldAfterRelease ==
    /\ (op.kind = "exit" /\ OpenScopes("on_test") = 0) => ~held["on_test"]
    /\ (op.kind = "emit" /\ op.name = "on_test" /\ OpenScopes("on_test") = 0)
         => dispatched = <<EventPayload(op.arg)>>

\* C4: with two event loops holding the lock, the release by one of them while
\* the other still holds it dispatches nothing and leaves the lock held.
C4_HeldWhileAnyLoopHolds ==
    \A l1, l2 \in Loops :
        (/\ l1 # l2
         /\ op.kind = "aexit" /\ op.ctx = l1
         /\ depth["on_test"][l1] = 0
         /\ depth["on_test"][l2] > 0)
          => (dispatched = <<>> /\ held["on_test"])


---------------------------------------------------------------------------
(* Properties of binding and dispatch, checked under SpecBind *)

\* the last call was an emit that was dispatched (the lock was not held)
Dispatching == op.kind = "emit" /\ dispatched # <<>>

\* how often the last call invoked the callable m
TimesCalled(m) == Cardinality({i \in DOMAIN calls : calls[i].cb = m})

\* the callables bound to the channel of the last call
BoundTo(name) == {iter_methods(k) : k \in listeners[name]}

\* the positions of the listener calls that returned False
Stoppers == {i \in DOMAIN calls : ReturnOf(calls[i].cb) = "False"}

\* C5: in an unlocked dispatch, a listener that returns False is the last one
\* invoked and emit returns False; if no invoked listener returned False (they
\* returned None or 0), every bound listener was invoked and emit returns None.
C5_ShortCircuit ==
    Dispatching =>
        IF Stoppers # {}
        THEN /\ Stoppers = {Len(calls)}
             /\ op.result = "False"
             /\ \A m \in BoundTo(op.name) : TimesCalled(m) <= 1
        ELSE /\ op.result = "None"
             /\ \A m \in BoundTo(op.name) : TimesCalled(m) = 1
             /\ Len(calls) = Cardinality(listeners[op.name])

\* C5 witness: with all four listeners bound, on_stop was invoked second,
\* after a listener that returned 0, and the other two were skipped
C5_Witness ==
    /\ Dispatching
    /\ Cardinality(listeners["on_test"]) = 4
    /\ Len(calls) = 2
    /\ ReturnOf(calls[1].cb) = "0"
    /\ ReturnOf(calls[2].cb) = "False"
    /\ op.result = "False"

C7_WeakListeners ==
    /\ \A n \in Names : \A k \in listeners[n] : alive[k[2]]
    /\ (op.kind = "emit" /\ op.name \in Names)
         => /\ op.result \in {"None", "False"}
            /\ \A i \in DOMAIN calls : alive[OwnerOf(calls[i].cb)]

\* C7 witness: o1 was collected while bound and never unbound; a later emit was
\* dispatched to the listeners that remain
C7_Witness ==
    /\ Dispatching
    /\ "o1" \in diedBound
    /\ ~alive["o1"]
    /\ calls # <<>>


---------------------------------------------------------------------------
(* Properties of property assignment, checked under SpecProp and SpecTyped *)

\* the last call was an assignment sender.<op.name> = op.arg
Assigning == op.kind = "set"

ValidationErrors == {"NoneNotAllowedError", "InvalidTypeError", "OutOfRangeError"}

\* the assignment left everything as it was: the stored value, the pending
\* emission, and no listener was invoked or dispatch made
NothingHappened ==
    /\ storage[op.name] = op.pre.stored
    /\ last_event[op.name] = op.pre.pending
    /\ calls = <<>>
    /\ dispatched = <<>>

\* C8: an assignment of a value equal (==) to the stored one dispatches
\* nothing, records nothing as pending, invokes no listener and leaves the
\* stored value as it is.
C8_EqualValueIsNoOp ==
    (Assigning /\ PyEq(op.arg, op.pre.stored)) => (NothingHappened /\ op.result = "None")

\* C8 witness: 1.0 was assigned over a stored 1 with a listener bound and the
\* lock not held; the stored value is still the integer
C8_Witness ==
    /\ Assigning
    /\ op.arg = FloatV(1)
    /\ op.pre.stored = IntV(1)
    /\ storage["test_prop"] = IntV(1)
    /\ listeners["test_prop"] # {}
    /\ ~op.pre.held
    /\ calls = <<>>

\* the last call assigned a value that differs from the stored one while the
\* property's lock was not held
ChangedUnlocked == Assigning /\ ~PyEq(op.arg, op.pre.stored) /\ ~op.pre.held

\* every listener call of the last assignment got (instance, new value,
\* old=previous value, property=the property) and read the new value
CallsCarryChange ==
    \A i \in DOMAIN calls :
        /\ calls[i].payload = PropPayload(op.name, op.arg, op.pre.stored)
        /\ calls[i].seen = op.arg

EffectiveMin(p) == IF range_storage[p].set THEN range_storage[p].min ELSE PropDecl[p].min
EffectiveMax(p) == IF range_storage[p].set THEN range_storage[p].max ELSE PropDecl[p].max

WrongType(p, v) ==
    \/ PropDecl[p].cls = "StringProperty" /\ v.t # "str"
    \/ PropDecl[p].cls = "IntProperty" /\ v.t # "int"

OutsideRange(p, v) ==
    /\ PropDecl[p].cls = "IntProperty"
    /\ \/ EffectiveMin(p) # PyNone /\ v.n < EffectiveMin(p).n
       \/ EffectiveMax(p) # PyNone /\ v.n > EffectiveMax(p).n

\* the error the assignment sender.<p> = v has to raise, "None" if none
ExpectedError(p, v) ==
    IF v = PyNone
    THEN IF PropDecl[p].allownone THEN "None" ELSE "NoneNotAllowedError"
    ELSE IF WrongType(p, v) THEN "InvalidTypeError"
    ELSE IF OutsideRange(p, v) THEN "OutOfRangeError"
    ELSE "None"

\* C10: an assignment of None where None is not allowed, of a value of the
\* wrong type, or of a number outside the instance's effective range raises
\* NoneNotAllowedError, InvalidTypeError or OutOfRangeError respectively; an
\* assignment that raises one of them leaves the stored value and the pending
\* emission as they were and invokes no listener.
C10_RejectedAssignment ==
    Assigning =>
        /\ ExpectedError(op.name, op.arg) # "None" => op.result = ExpectedError(op.name, op.arg)
        /\ op.result \in ValidationErrors => NothingHappened

\* C10 witness: x has a listener and a range of its own, (MaxInt, None); the
\* class's minimum, which the class's range allows, was rejected and x is
\* unchanged
C10_Witness ==
    /\ Assigning
    /\ op.name = "x"
    /\ op.arg = IntV(XMin)
    /\ op.result = "OutOfRangeError"
    /\ range_storage["x"] = Range(IntV(MaxInt), PyNone)
    /\ listeners["x"] # {}
    /\ storage["x"] = op.pre.stored

---------------------------------------------------------------------------
(* Properties of unbind, checked under SpecUnbind *)

\* the key a callable is stored under
KeyOf(m) == IF m.self = NoSelf THEN <<"function", m.func>> ELSE <<m.func, m.self>>

\* what is left of a container's keys, and of a loop map, without the keys in gone
Without(d, gone) == {k \in d : k \notin gone}
LoopsWithout(lm, gone) == {e \in lm : e[1] \notin gone}

\* the step is a call of unbind that removes exactly the keys that satisfy
\* Gone from both containers of every channel and nothing else
UnbindRemoves(Gone(_)) ==
    \A n \in Channels :
        LET gone == {k \in listeners[n] \cup aio_listeners[n] : Gone(k)}
        IN  /\ listeners'[n] = Without(listeners[n], gone)
            /\ aio_listeners'[n] = Without(aio_listeners[n], gone)
            /\ event_loop_map'[n] = LoopsWithout(event_loop_map[n], gone)

\* a call that dispatched invoked only plain callbacks that are bound to its
\* channel and scheduled only coroutine callbacks that are bound to it
OnlyBoundInvoked ==
    dispatched # <<>> =>
        /\ \A i \in DOMAIN calls : KeyOf(calls[i].cb) \in listeners[op.name]
        /\ \A c \in scheduled : KeyOf(c.cb) \in aio_listeners[op.name]

\* a dispatch that no listener cut short invoked every plain callback bound to
\* its channel once and scheduled every coroutine callback bound to it
AllBoundInvoked ==
    (dispatched # <<>> /\ Stoppers = {}) =>
        /\ \A k \in listeners[op.name] : TimesCalled(iter_methods(k)) = 1
        /\ \A k \in aio_listeners[op.name] : \E c \in scheduled : KeyOf(c.cb) = k

C11_Step ==
    /\ (op'.kind = "unbind" /\ ~IsCallable(op'.target)) =>
           /\ op'.result = "None"
           /\ UnbindRemoves(LAMBDA k : k[2] = op'.target.self)
    /\ OnlyBoundInvoked'

\* C11: unbind(obj) with obj not a function or method removes from both
\* containers of every channel, event or property, exactly the entries owned
\* by obj and leaves all the others; and a dispatch invokes or schedules only
\* what is bound to its channel, so nothing of obj's afterwards.
C11_UnbindObject == [][C11_Step]_vars

\* C11 witness: unbind(o1) was called while o1 had entries; o1 has none left
\* on either channel and o2's plain and coroutine callbacks are still bound
C11_Witness ==
    /\ op.kind = "unbind"
    /\ op.target = [func |-> "", self |-> "o1"]
    /\ op.pre.bound
    /\ \A n \in Channels : \A k \in listeners[n] \cup aio_listeners[n] : k[2] # "o1"
    /\ <<"on_event", "o2">> \in listeners["on_test"]
    /\ <<"on_coro", "o2">> \in aio_listeners["on_test"]

C12_Step ==
    /\ (op'.kind = "unbind" /\ IsCallable(op'.target)) =>
           /\ op'.result = "None"
           /\ UnbindRemoves(LAMBDA k : k = KeyOf(op'.target))
    /\ (op'.kind = "bind" /\ op'.result = "None") =>
           KeyOf(op'.target) \in listeners'[op'.name]
    /\ (op'.kind = "bind_async" /\ op'.result = "None") =>
           KeyOf(op'.target) \in aio_listeners'[op'.name]
    /\ AllBoundInvoked'

\* C12: unbind(callback) with a function or bound method removes exactly the
\* entry of that (function, owner) pair from both containers of every channel
\* and leaves every other entry, also those of the same owner; it returns
\* without error whether or not the callback was bound; a later bind puts the
\* entry back, and every entry of a channel is invoked by a dispatch that no
\* listener cuts short.
C12_UnbindCallback == [][C12_Step]_vars

\* C12 witness: unbind(o1.on_event) was called while it was bound; it is bound
\* to no channel now, and o1.on_stop and o1.on_coro are still bound to test_prop
C12_Witness ==
    /\ op.kind = "unbind"
    /\ op.target = Method("o1", "on_event")
    /\ op.pre.bound
    /\ \A n \in Channels : <<"on_event", "o1">> \notin listeners[n]
    /\ <<"on_stop", "o1">> \in listeners["test_prop"]
    /\ <<"on_coro", "o1">> \in aio_listeners["test_prop"]

---------------------------------------------------------------------------
(* Properties of the registry, checked under SpecRegistry *)

\* the names that are an event or a property of the instance
Registered == events \cup PropNames

ListenerVars == <<listeners, aio_listeners, event_loop_map>>

\* C13: bind(n1=m1, n2=m2) with n1 or n2 neither an event nor a property raises
\* DoesNotExistError and leaves the listener containers of every channel as
\* they were.
C13_BindAllOrNothing ==
    [][(op'.kind = "bind_many" /\ ~({op'.name, op'.ctx} \subseteq Registered)) =>
           /\ op'.result = "DoesNotExistError"
           /\ UNCHANGED ListenerVars]_vars

LookupKinds == {"emit", "get_dispatcher_event", "emission_lock"}

\* C14: emit, get_dispatcher_event and emission_lock with a name that is
\* neither an event nor a property raise DoesNotExistError, invoke and schedule
\* no listener, and change neither the registry, nor a listener container, nor
\* a lock, nor a stored value.
C14_UnknownNameRaises ==
    [][(op'.kind \in LookupKinds /\ op'.name \notin Registered) =>
           /\ op'.result = "DoesNotExistError"
           /\ calls' = <<>> /\ dispatched' = <<>> /\ scheduled' = {}
           /\ UNCHANGED <<events, ListenerVars, lockVars, propVars>>]_vars

\* C14 witness: emission_lock("on_new") raised before on_new was registered,
\* while on_test had a listener and its lock was held
C14_Witness ==
    /\ op.kind = "emission_lock"
    /\ op.name = "on_new"
    /\ "on_new" \notin events
    /\ op.result = "DoesNotExistError"
    /\ listeners["on_test"] # {}
    /\ held["on_test"]

\* every channel but those named keeps its listeners and its lock
OthersUnchanged(names) ==
    \A n \in Channels \ names :
        /\ listeners'[n] = listeners[n]
        /\ aio_listeners'[n] = aio_listeners[n]
        /\ event_loop_map'[n] = event_loop_map[n]
        /\ held'[n] = held[n]
        /\ last_event'[n] = last_event[n]
        /\ aio_locks'[n] = aio_locks[n]

C15_Step ==
    (op'.kind = "register_event" /\ op'.ctx = NoName) =>
        IF op'.name \in events
        THEN op'.result = "EventExistsError" /\ UNCHANGED events /\ OthersUnchanged({})
        ELSE IF op'.name \in PropNames
        THEN op'.result = "PropertyExistsError" /\ UNCHANGED events /\ OthersUnchanged({})
        ELSE /\ op'.result = "None"
             /\ events' = events \cup {op'.name}
             /\ listeners'[op'.name] = {}
             /\ aio_listeners'[op'.name] = {}
             /\ ~held'[op'.name]
             /\ OthersUnchanged({op'.name})

\* C15: register_event(name) raises EventExistsError when name is an event of
\* the instance and PropertyExistsError when it is a property, and then every
\* channel keeps its listeners and lock state; otherwise name becomes an event
\* whose channel has no listeners and an unheld lock, and the other channels
\* are as before.
C15_RegisterEvent == [][C15_Step]_vars

\* C15 witness: on_new has been registered, and register_event("on_test")
\* raised EventExistsError while on_test had a listener and its lock was held
C15_Witness ==
    /\ op.kind = "register_event"
    /\ op.name = "on_test" /\ op.ctx = NoName
    /\ op.result = "EventExistsError"
    /\ "on_new" \in events
    /\ listeners["on_test"] # {}
    /\ held["on_test"]

---------------------------------------------------------------------------
(* Properties of class declarations, checked under SpecClass *)

\* C16: at no time, from construction on and after any register_event calls,
\* is a name a key of both the events and the property events of an instance.
C16_PartitionsDisjoint == instance.events \cap instance.props = {}

\* a class and all its ancestors, by its bases
RECURSIVE Ancestry(_)
Ancestry(c) ==
    {c} \cup UNION {Ancestry(classes[c].bases[i]) : i \in DOMAIN classes[c].bases}

\* the class whose declaration of the property n an instance of c finds: the
\* first in the order of c.__mro__ that declares it
DescriptorOf(c, n) ==
    LET mro == classes[c].mro
        i   == CHOOSE k \in DOMAIN mro :
                   /\ n \in classes[mro[k]].own_props
                   /\ \A l \in 1..(k - 1) : n \notin classes[mro[l]].own_props
    IN  <<n, mro[i]>>

\* C17: the events and properties of every class are those declared by the
\* class and by all its ancestors, whatever the shape of the inheritance, and
\* each property name has the descriptor of the nearest class that declares it.
C17_NamesAreUnionOfAncestry ==
    \A c \in ClassIds :
        classes[c].defined =>
            /\ classes[c].EVENTS = UNION {classes[a].own_events : a \in Ancestry(c)}
            /\ {d[1] : d \in classes[c].PROPERTIES}
                   = UNION {classes[a].own_props : a \in Ancestry(c)}
            /\ \A d \in classes[c].PROPERTIES : d = DescriptorOf(c, d[1])

---------------------------------------------------------------------------
(* Two instances of one class with mutable defaults *)

InitInst == Start(FreshHeap, FALSE)

NextInst ==
    \/ \E a \in InstIds : NewInst(a)
    \/ \E a \in InstIds : \E p \in ContainerProps : GetInst(a, p)
    \/ \E a \in InstIds : \E p \in ContainerProps : \E meddle \in BOOLEAN :
         SetInst(a, p, IF p = "test_list" THEN ListLit(1) ELSE DictLit(2), meddle)
    \/ \E a \in InstIds : AppendInst(a, IntV(1))
    \/ \E a \in InstIds : SetRangeInst(a, IntV(0), IntV(XMax))
    \/ \E a \in InstIds : DestroyInst(a)

SpecInst == InitInst /\ [][NextInst]_vars

---------------------------------------------------------------------------
(* Properties of the container properties, checked under SpecNested and    *)
(* SpecCont                                                                *)

\* the calls that change a list or a dict
ListCalls ==
    {"list.__setitem__", "list.__setitem__[:]", "list.__delitem__", "list.__delitem__[:]",
     "list.append", "list.extend", "list.__iadd__", "list.remove", "list.clear",
     "list.insert", "list.pop"}
DictCalls ==
    {"dict.__setitem__", "dict.__delitem__", "dict.update", "dict.clear", "dict.pop",
     "dict.setdefault"}

\* the call has changed the elements of its receiver
Changed(i) == heap'[i].items # heap[i].items \/ heap'[i].map # heap[i].map

\* the call has made exactly one dispatch, on the channel of property p, with
\* the container p holds as the value
OneDispatch(p) ==
    /\ Len(dispatched') = 1
    /\ dispatched'[1].prop = p
    /\ dispatched'[1].a = storage'[p]

\* C18: a call that changes a list or dict nested, at any depth, in the
\* container of a property makes exactly one dispatch, on that property's
\* channel and with the property's own container as the value.
C18_NestedMutationDispatchesOnce ==
    [][(/\ op'.kind \in ListCalls \cup DictCalls
        /\ receiver' \notin Roots(storage)
        /\ Changed(receiver')) => OneDispatch(op'.name)]_vars

\* the calls the rule of one dispatch per call is stated for
ListedCalls == (ListCalls \cup DictCalls) \ {"list.insert", "list.pop"}

\* the assigned literal and the container now held have different contents
Differs(p) == Term(heap, op'.arg) # Term(heap, storage[p])

\* C19 as stated: every assignment of a list or dict to a container property
\* makes exactly one dispatch.
C19_AssignmentAlwaysDispatches ==
    [][(op'.kind = "set" /\ op'.name \in ContainerProps) => OneDispatch(op'.name)]_vars

\* C19: each listed call on the container of a property makes exactly one
\* dispatch on the property's channel, whatever the number of elements; so
\* does the assignment of a list or dict whose contents differ from those
\* held, after which the property holds a container with the assigned
\* contents; the assignment of equal contents dispatches nothing.
C19_OneDispatchPerCall ==
    [][/\ (op'.kind \in ListedCalls /\ receiver' \in Roots(storage))
            => OneDispatch(op'.name) /\ storage' = storage
       /\ (op'.kind = "set" /\ op'.name \in ContainerProps /\ Differs(op'.name))
            => /\ OneDispatch(op'.name)
               /\ Term(heap', storage'[op'.name]) = Term(heap', op'.arg)
       /\ (op'.kind = "set" /\ op'.name \in ContainerProps /\ ~Differs(op'.name))
            => dispatched' = <<>> /\ storage' = storage]_vars

\* the list [0, 1] has been assigned to test_list, which now holds two
\* elements, with one dispatch
C19_Witness ==
    /\ op.kind = "set" /\ op.name = "test_list" /\ op.arg = ListLit(3)
    /\ heap[storage["test_list"].n].items = <<IntV(0), IntV(1)>>
    /\ Len(dispatched) = 1

\* C20: a call that changes an observable list of a property, insert and pop
\* included, makes a dispatch on the property's channel.
C20_EveryListMutationNotifies ==
    [][(/\ op'.kind \in ListCalls
        /\ heap[receiver'].obs
        /\ Changed(receiver'))
          => dispatched' # <<>> /\ dispatched'[1].prop = op'.name]_vars

---------------------------------------------------------------------------
(* Properties of the instances a and b, checked under SpecInst *)

Living == {a \in InstIds : objs[a].state = "alive"}

\* C21: for every living instance, what each list/dict property stores is an
\* observable container, and so is every list or dict nested in it, each with
\* a parent.
C21_StoredIsObservable ==
    \A a \in Living : \A p \in ContainerProps :
        /\ heap[objs[a].store[p].n].obs
        /\ \A j \in Below(heap, {objs[a].store[p].n}, MaxObjs) \ {objs[a].store[p].n} :
               heap[j].obs /\ heap[j].parent # NoParent

\* what instance b reads from property p: the contents of its entry
Reads(h, os, b, p) == Term(h, os[b].store[p])

\* C22: a call made on one instance changes neither what another living
\* instance reads from its list/dict properties nor the class's defaults (what
\* a new instance reads), and two instances never read the same object.
C22_DefaultNeverShared ==
    [][/\ \A b \in Living \ {op'.ctx} : \A p \in ContainerProps :
             objs'[b].state = "alive" => Reads(heap', objs', b, p) = Reads(heap, objs, b, p)
       /\ \A p \in ContainerProps :
             Term(heap', Ref(DefaultCell[p])) = Term(heap, Ref(DefaultCell[p]))
       /\ \A b \in InstIds \ {op'.ctx} : \A p \in ContainerProps :
             (op'.kind = "get" /\ op'.name = p /\ objs'[b].state = "alive")
                 => objs'[b].store[p] # objs'[op'.ctx].store[p]]_vars

---------------------------------------------------------------------------
(* copy_on_change *)

\* the live objects a copy shares with the container it was taken from
RECURSIVE Aliases(_)
Aliases(t) ==
    IF t.t = "ref" THEN {t.n}
    ELSE UNION ({Aliases(t.items[k]) : k \in DOMAIN t.items}
                \cup {Aliases(t.map[k]) : k \in DOMAIN t.map})

\* what a copy compares equal to in heap h
RECURSIVE ContentsOf(_, _)
ContentsOf(h, t) ==
    IF t.t = "ref" THEN Term(h, Ref(t.n))
    ELSE [t EXCEPT !.items = [k \in DOMAIN t.items |-> ContentsOf(h, t.items[k])],
                   !.map = [k \in DOMAIN t.map |-> ContentsOf(h, t.map[k])]]

\* old is a copy that equals the contents the property held before the call
EqualSnapshot(p, old) ==
    /\ old.t = ContainerDecl[p]
    /\ ContentsOf(heap, old) = Term(heap, storage[p])

\* old shares no list or dict with the live container
DeepSnapshot(old) == Aliases(old) = {}

\* C23 (as stated): every dispatch a call on a container of a property makes,
\* on the root or on a nested container, carries as old a deep copy equal to
\* the contents the property held just before the call if the property has
\* copy_on_change, and None if it has not.
C23_OldIsDeepSnapshot ==
    [][(op'.kind \in ListCalls \cup DictCalls) =>
          \A k \in DOMAIN dispatched' :
              IF copy_on_change[op'.name]
              THEN EqualSnapshot(op'.name, dispatched'[k].old)
                   /\ DeepSnapshot(dispatched'[k].old)
              ELSE dispatched'[k].old = PyNone]_vars

---------------------------------------------------------------------------
(* The death of an instance *)

\* C29: once an instance is destroyed no property keeps anything under its
\* id: neither a value, nor the per-instance range of the numeric property,
\* nor a weak reference.
C29_DeadInstanceLeavesNothing ==
    \A a \in InstIds :
        objs[a].state = "dead" =>
            /\ \A p \in InstProps : objs[a].store[p] = NoVal
            /\ objs[a].range = NoRange
            /\ objs[a].weakrefs = {}

\* instance a has just been destroyed, while b lives on with the range it set
C29_Witness ==
    /\ op.kind = "del" /\ op.ctx = "a"
    /\ objs["a"].state = "dead"
    /\ objs["b"].state = "alive"
    /\ objs["b"].range # NoRange
    /\ objs["b"].store["x"] # NoVal

---------------------------------------------------------------------------
(* A listener that raises *)

\* C24: when a listener raises during a dispatch -- of an emit, of a property
\* assignment, of the replay at the end of a scope -- the caller gets the
\* exception, the raising listener is the last one called, and nothing is
\* tried again: there was one dispatch, no listener was called twice, and
\* nothing is left pending on the channel.
C24_ListenerExceptionPropagates ==
    [][\A k \in DOMAIN calls' :
          calls'[k].cb \in Raisers =>
              /\ op'.result = "Exception"
              /\ k = Len(calls')
              /\ Len(dispatched') = 1
              /\ \A i, j \in DOMAIN calls' : calls'[i].cb = calls'[j].cb => i = j
              /\ last_event'[op'.name] = NoEvent]_vars

\* an assignment to test_prop, to which on_event and on_raise are bound, has
\* called on_raise first: on_event was not called and the caller got the
\* exception
C24_Witness ==
    /\ op.kind = "set" /\ op.name = "test_prop"
    /\ op.result = "Exception"
    /\ Len(calls) = 1
    /\ calls[1].cb \in Raisers
    /\ <<"on_event", "o1">> \in listeners["test_prop"]
    /\ storage["test_prop"] = op.arg

---------------------------------------------------------------------------
(* Scopes of the emission lock, checked under SpecScope *)

\* C25 (as stated): when the body of the outermost with-scope of a channel
\* raises, the scope's exit leaves the lock not held, and an emission that
\* was pending is dispatched exactly once by that exit.
C25_ReleasedWhenBodyRaises ==
    (op.kind = "exit_raise" /\ depth[op.name]["sync"] = 0)
      => /\ ~held[op.name]
         /\ last_event[op.name] = NoEvent
         /\ op.pre.pending # NoEvent => dispatched = <<op.pre.pending>>

\* C26: the lock of a channel defers that channel only.  A call on channel n
\* leaves the lock and the pending emission of the other channel alone; an
\* emit or a property change on n while n's own lock is not held is
\* dispatched at once, whatever the other channel's lock; while n's lock is
\* held it is deferred, and the exit of a scope of n that finds an emission
\* pending dispatches that emission, once, and clears n's lock.
C26_LockIsPerChannel ==
    [][\A n \in ScopeNames :
          (op'.name = n /\ op'.kind \in {"emit", "set", "enter", "exit", "exit_raise"}) =>
              /\ \A m \in ScopeNames \ {n} :
                     held'[m] = held[m] /\ last_event'[m] = last_event[m]
              /\ (op'.kind = "emit" /\ ~held[n])
                    => dispatched' = <<EventPayload(op'.arg)>>
              /\ (op'.kind = "set" /\ ~held[n] /\ storage'[n] # storage[n])
                    => dispatched' = <<PropPayload(n, storage'[n], storage[n])>>
              /\ (op'.kind \in {"emit", "set"} /\ held[n]) => dispatched' = <<>>
              /\ (op'.kind \in {"exit", "exit_raise"} /\ held[n] /\ last_event[n] # NoEvent)
                    => dispatched' = <<last_event[n]>> /\ ~held'[n]]_vars

\* inside a scope of on_test that has an emission pending, an assignment to
\* test_prop has been dispatched to its listener at once
C26_Witness ==
    /\ op.kind = "set" /\ op.name = "test_prop"
    /\ held["on_test"] /\ depth["on_test"]["sync"] = 1
    /\ last_event["on_test"] # NoEvent
    /\ ~held["test_prop"]
    /\ Len(dispatched) = 1 /\ Len(calls) = 1

\* a scope of test_prop opened inside a scope of on_test has been left: its
\* own pending change was dispatched, and on_test is still held with its own
\* emission pending
C26_WitnessNested ==
    /\ op.kind = "exit" /\ op.name = "test_prop"
    /\ Len(dispatched) = 1 /\ dispatched[1].prop = "test_prop"
    /\ held["on_test"] /\ last_event["on_test"] # NoEvent
    /\ depth["on_test"]["sync"] = 1

---------------------------------------------------------------------------
(* The cache of @receiver, checked under SpecGlobal *)

\* C27 (as stated): @receiver(name, cache=True) for a name that is not
\* registered puts the callback in the cache and raises nothing; an emit of a
\* name that is not registered raises DoesNotExistError and calls nobody; and
\* when pydispatch.register_event registers a name, every callback cached
\* under it is bound to it and the name leaves the cache.
C27_CachedCallbacksBound ==
    [][/\ (op'.kind = "receiver" /\ op'.arg = BoolV(TRUE) /\ op'.name \notin Known)
            => /\ op'.result = "None"
               /\ cache'[op'.name].present
               /\ cache'[op'.name].data = add_method(cache[op'.name].data, op'.target)
       /\ (op'.kind = "emit" /\ op'.name \notin Known)
            => op'.result = "DoesNotExistError" /\ calls' = <<>>
       /\ op'.kind = "global_register_event"
            => \A n \in CacheNames :
                   (n \notin events /\ n \in events' /\ cache[n].present)
                       => /\ cache[n].data \subseteq listeners'[n]
                          /\ ~cache'[n].present]_vars

---------------------------------------------------------------------------
(* Binding and unbinding during a dispatch, checked under SpecReact *)

\* a call of this dispatch unbound the entry k
UnboundDuring(cs, k) ==
    \E i \in DOMAIN cs : \E j \in DOMAIN cs[i].did :
        /\ cs[i].did[j].do = "unbind"
        /\ IF IsCallable(cs[i].did[j].t)
           THEN KeyOf(cs[i].did[j].t) = k
           ELSE cs[i].did[j].t.self = k[2]

TimesInvoked(cs, k) == Cardinality({i \in DOMAIN cs : KeyOf(cs[i].cb) = k})

\* C30: listeners may bind and unbind on the channel that is being
\* dispatched.  The dispatch does not fail; every listener that was bound
\* when it started and that no listener unbound during it is called exactly
\* once; no listener is called twice; and a callback that was not bound
\* when the dispatch started is not called by it.
C30_BindDuringDispatch ==
    [][op'.kind = "emit_reacting" =>
          /\ op'.result = "None"
          /\ \A k \in listeners[op'.name] :
                 ~UnboundDuring(calls', k) => TimesInvoked(calls', k) = 1
          /\ \A k \in ReactKeys : TimesInvoked(calls', k) <= 1
          /\ \A k \in ReactKeys \ listeners[op'.name] : TimesInvoked(calls', k) = 0]_vars

\* as in test_bind_during_emit: o1.on_event, called first, unbound o1 and
\* bound o2.on_event; the function f1, bound from the start, was called
\* after it, the new o2.on_event was not called and is bound now
C30_Witness ==
    /\ op.kind = "emit_reacting"
    /\ Len(calls) = 2
    /\ calls[1].cb = [func |-> "on_event", self |-> "o1"]
    /\ Len(calls[1].did) = 2
    /\ calls[1].did[2].t = [func |-> "on_event", self |-> "o2"]
    /\ calls[2].cb = [func |-> "f1", self |-> NoSelf]
    /\ listeners["on_test"] = {KeyOf(calls[1].did[2].t), KeyOf(calls[2].cb)}

---------------------------------------------------------------------------
(* Waiters, checked under SpecWait *)

\* C28: a waiter that is registered and was not there when a dispatch began
\* is not touched by it; a waiter leaves the set only by a dispatch that
\* has triggered it, exactly once and with that dispatch's payload; and
\* outside a dispatch no registered waiter has been triggered.
C28_WaitersTriggeredOnce ==
    \A w \in WaiterIds :
        /\ aio_waiters.state[w] = "unborn" => aio_waiters.args[w] = <<>>
        /\ aio_waiters.state[w] = "removed"
              => /\ w \notin aio_waiters.waiters
                 /\ aio_waiters.args[w] = <<aio_waiters.by[w]>>
        /\ aio_waiters.state[w] = "waiting"
              => /\ w \in aio_waiters.waiters
                 /\ aio_waiters.pc[Emitter] = "idle" => aio_waiters.args[w] = <<>>
                 /\ aio_waiters.pc[Emitter] = "for"
                       => /\ w \in aio_waiters.todo => aio_waiters.args[w] = <<>>
                          /\ w \notin aio_waiters.todo
                                => aio_waiters.args[w] = <<aio_waiters.payload>>

\* a dispatch of 1 has triggered and removed two waiters
C28_Witness ==
    /\ op.kind = "emit"
    /\ \A w \in {1, 2} : /\ aio_waiters.state[w] = "removed"
                          /\ aio_waiters.args[w] = <<EventPayload(IntV(1))>>
    /\ aio_waiters.waiters = {}
    /\ aio_waiters.lock = "free"

---------------------------------------------------------------------------
(* What the lock of a property's channel defers, checked under SpecScope *)

\* C33: the lock defers the notification, not the store.  An assignment made
\* while the property's lock is held is stored at once and dispatches
\* nothing; as long as a change is pending, its value is the value the
\* property holds; and the dispatch a scope's exit makes carries the value
\* the property holds then, which is also what a listener reads.
C33_LockDefersOnlyNotification ==
    /\ (op.kind = "set" /\ op.name = "test_prop" /\ op.pre.held)
          => /\ storage["test_prop"] = op.arg
             /\ dispatched = <<>> /\ calls = <<>>
    /\ last_event["test_prop"] # NoEvent
          => last_event["test_prop"].a = storage["test_prop"]
    /\ (op.kind \in {"exit", "exit_raise"} /\ op.name = "test_prop" /\ dispatched # <<>>)
          => /\ Len(dispatched) = 1
             /\ dispatched[1].a = storage["test_prop"]
             /\ \A i \in DOMAIN calls :
                    calls[i].payload.a = storage["test_prop"]
                    /\ calls[i].seen = storage["test_prop"]

\* inside one scope test_prop went from None to 0 and then to 1: the exit has
\* told the listener once, of the value 1 with old 0, and 1 is stored
C33_Witness ==
    /\ op.kind = "exit" /\ op.name = "test_prop"
    /\ nHeld["test_prop"] = 2
    /\ storage["test_prop"] = IntV(1)
    /\ dispatched = <<PropPayload("test_prop", IntV(1), IntV(0))>>
    /\ Len(calls) = 1

---------------------------------------------------------------------------
(* The range of a numeric property, checked under SpecTyped *)

\* value lies within the pair (vmin, vmax), where None means no limit
WithinRange(v, rng) ==
    /\ rng[1] # PyNone => v.n >= rng[1].n
    /\ rng[2] # PyNone => v.n <= rng[2].n

\* C37: in every reachable state the stored value of the bounded numeric
\* property x is None (when the property allows it) or lies within the
\* effective min and max of its instance.
C37_StoredWithinRange ==
    \/ (PropDecl["x"].allownone /\ storage["x"] = PyNone)
    \/ (IsNumber(storage["x"])
          /\ WithinRange(storage["x"], get_range("x", range_storage["x"])))

---------------------------------------------------------------------------
(* Calls that leave a container as it was, checked under SpecCont *)

\* the calls that can return without having changed their receiver
QuietCalls == {"dict.setdefault", "dict.pop", "dict.update", "list.extend"}

\* C39: a setdefault, pop, update or extend on the observable container of a
\* property that leaves the contents of the container unchanged dispatches
\* nothing.
C39_UnchangedContentsNoDispatch ==
    [][(/\ op'.kind \in QuietCalls
        /\ op'.result = "None"
        /\ heap[receiver'].obs
        /\ ~Changed(receiver')) => dispatched' = <<>>]_vars

---------------------------------------------------------------------------
(* Containers that have left a property, checked under SpecDetach *)

\* C38: a change made to a container that is not part of the value of any
\* property (the property was assigned another container, or the container
\* was removed from its parent) makes no dispatch.
C38_DetachedContainerIsSilent ==
    [][(/\ op'.kind \in ListCalls \cup DictCalls
        /\ receiver' = kept
        /\ ~Reachable(kept)) => dispatched' = <<>>]_vars

---------------------------------------------------------------------------
(* @receiver with several names, checked under SpecReceive *)

\* C35: after @receiver([n1, n2], cache=True) has run, the callback is bound
\* to each of the two names that was registered and cached for each that was
\* not, in whichever order the names were given.
C35_BoundOrCachedForEveryName ==
    [][op'.kind = "receiver_many"
          => /\ op'.result = "None"
             /\ \A n \in {op'.name, op'.ctx} :
                   IF n \in Known
                   THEN add_method({}, op'.target) \subseteq listeners'[n]
                   ELSE /\ cache'[n].present
                        /\ add_method({}, op'.target) \subseteq cache'[n].data]_vars

---------------------------------------------------------------------------
(* Nested `async with` on one event loop, checked under SpecLock *)

\* C32: leaving an `async with` scope of on_test on an event loop, while no
\* other context has a scope of on_test open, never raises; this covers the
\* two exits of two scopes nested on the same loop.
C32_NestedAsyncExitDoesNotRaise ==
    [][(/\ op'.kind = "aexit"
        /\ op'.name = "on_test"
        /\ \A c \in Contexts \ {op'.ctx} : depth["on_test"][c] = 0)
          => op'.result = "None"]_vars

---------------------------------------------------------------------------
(* Emitting in one thread while another holds the lock, checked under      *)
(* SpecRace                                                                *)

\* no scope of on_test is open and no emit is under way
Quiet ==
    /\ \A c \in Contexts : depth["on_test"][c] = 0
    /\ \A l \in Loops : emitting[l] = NoEvent

\* C31: with two event loops' threads emitting on_test and acquiring and
\* releasing its lock in any interleaving, no emission stays recorded as
\* pending once every scope has been left and every emit has returned.
C31_NoEmissionLeftPending ==
    Quiet => last_event["on_test"] = NoEvent

\* a narrower statement: an emission is recorded as pending only while the
\* lock is held (and so a release is still to come)
C31_PendingOnlyWhileHeld ==
    last_event["on_test"] # NoEvent => held["on_test"]

---------------------------------------------------------------------------
(* Emitting and assigning from inside a callback, checked under SpecNest *)

\* the calls in which the listener's body has emitted or assigned a new value
Issues ==
    {i \in DOMAIN calls :
        /\ calls[i].cb = Reactor
        /\ calls[i].payload.a = Trigger
        /\ (calls[i].payload.prop = "" \/ calls[i].seen # Reply)}

\* how often the payload q occurs in a sequence of payloads, and how often
\* the listener m has been called with it
Occurs(q, ps)      == Cardinality({k \in DOMAIN ps : ps[k] = q})
CalledWith(m, q)   == Cardinality({i \in DOMAIN calls : calls[i].cb = m /\ calls[i].payload = q})

\* C40: when the end of a scope replays a pending emission, an emit that a
\* listener issues during the replay is dispatched at once, before the
\* replay goes on to the next listener, reaches every bound listener exactly
\* once, and is not pending when the release has returned, the lock being
\* not held then.
C40_EmitDuringReplayIsNested ==
    (op.kind = "exit_nested" /\ op.pre.held /\ op.pre.pending # NoEvent)
        => /\ ~held[op.name]
           /\ last_event[op.name] = NoEvent
           /\ dispatched[1] = op.pre.pending
           /\ Len(dispatched) = 1 + Cardinality(Issues)
           /\ \A i \in Issues : i < Len(calls) /\ calls[i + 1].payload.a = Reply
           /\ \A m \in BoundTo(op.name) : \A k \in DOMAIN dispatched :
                  CalledWith(m, dispatched[k]) = Occurs(dispatched[k], dispatched)

\* the scope of on_test ends with emit(0) pending and both listeners bound:
\* o1.on_event emits 1 during the replay, and four calls are made
C40_Witness ==
    /\ op.kind = "exit_nested" /\ op.name = "on_test"
    /\ op.pre.pending = EventPayload(Trigger)
    /\ dispatched = <<EventPayload(Trigger), EventPayload(Reply)>>
    /\ Len(calls) = 4
    /\ calls[1].cb = Reactor
    /\ calls[2].payload = EventPayload(Reply)

\* C36: when an assignment of test_prop has returned, the last notification
\* each listener received during it carries the value test_prop now holds,
\* also when a listener has assigned test_prop from its callback.
C36_LastNotificationIsStored ==
    op.kind = "set_nested"
        => \A m \in BoundTo(op.name) :
              LET mine == {i \in DOMAIN calls : calls[i].cb = m}
              IN  mine # {}
                    => calls[CHOOSE i \in mine : \A j \in mine : j <= i].payload.a
                          = storage[op.name]

---------------------------------------------------------------------------
(* Coroutine listeners and their event loops, checked under SpecAio *)

\* the coroutine listeners of on_test that were bound with loop l
BoundOn(l) ==
    {k \in aio_listeners["on_test"] : <<k, l>> \in event_loop_map["on_test"]}

\* the calls a sequence holds from position n + 1 on
Added(q, n) == {q[k] : k \in (n + 1)..Len(q)}

\* C34: an emit with the lock not held adds to each loop's queue exactly one
\* call per coroutine listener bound with that loop, carrying the emit's
\* argument, and runs none of them itself; unbinding leaves the calls that
\* are already waiting where they are; and a loop runs the call at the head
\* of its queue whether or not its listener is still bound.  A listener that
\* is not bound when an emit is made gets no call for it.
C34_CoroutinesScheduledOncePerEmit ==
    [][/\ (op'.kind = "emit_aio" /\ ~op'.pre.held)
            => /\ \A l \in Loops :
                     /\ Len(loop_queue'[l]) = Len(loop_queue[l]) + Cardinality(BoundOn(l))
                     /\ SubSeq(loop_queue'[l], 1, Len(loop_queue[l])) = loop_queue[l]
                     /\ Added(loop_queue'[l], Len(loop_queue[l]))
                          = {[cb |-> iter_methods(k), payload |-> EventPayload(op'.arg)] :
                                k \in BoundOn(l)}
               /\ \A i \in DOMAIN calls' : calls'[i].cb \notin Coroutines
       /\ op'.kind = "unbind" => loop_queue' = loop_queue
       /\ op'.kind = "loop_run"
            => /\ loop_queue[op'.ctx] # <<>>
               /\ calls' = <<[cb |-> Head(loop_queue[op'.ctx]).cb,
                              payload |-> Head(loop_queue[op'.ctx]).payload,
                              seen |-> NoVal]>>
               /\ loop_queue' = [loop_queue EXCEPT ![op'.ctx] = Tail(@)]]_vars

\* loop1 has run on_coro of o1 with the event 1 after on_coro of o1 was
\* unbound, and has no further call waiting
C34_Witness ==
    /\ op.kind = "loop_run" /\ op.ctx = "loop1"
    /\ op.target = [func |-> "on_coro", self |-> "o1"]
    /\ get_method_vars(op.target) \notin aio_listeners["on_test"]
    /\ calls = <<[cb |-> op.target, payload |-> EventPayload(IntV(1)), seen |-> NoVal]>>
    /\ loop_queue["loop1"] = <<>>

=============================================================================
